---------------------------- MODULE Spec2Model ----------------------------
(***************************************************************************)
(* Employee Task Management System, browser side.                          *)
(*                                                                         *)
(* The model follows the React components of the repository:               *)
(*   TaskList        (src/README.md, lines 51-520)                         *)
(*   Navigation      (src/README.md, lines 539-683)                        *)
(*   UserManagement  (src/unnamed/part_000)                                *)
(*   Dashboard       (src/Dashboard.js)                                    *)
(*   Login           (src/login.js)                                        *)
(* Each component's useState cells are the fields of one record variable.  *)
(* An async handler is two steps: the synchronous part up to its await     *)
(* (which captures the values of the render it was created in, in          *)
(* particular the tasks array, and puts a request on the network) and the  *)
(* continuation that runs when the request settles.  The HTTP API is an    *)
(* external collaborator; it is modelled from section 6 of the             *)
(* specification as a store that answers each request.                     *)
(*                                                                         *)
(* Text is a tuple of one-character strings so that toLowerCase and        *)
(* includes can be computed.  Ids and ISO dates are TLA+ strings.          *)
(***************************************************************************)
EXTENDS Integers, Sequences, FiniteSets, TLC

VARIABLES
    user,        \* useAuth().user: the session's current user
    route,       \* the path of the view that is mounted: tasks, users, dashboard, login
    taskList,    \* TaskList component state (useState cells)
    userMgmt,    \* UserManagement component state (useState cells)
    dashboard,   \* Dashboard component state (useState cells)
    loginView,   \* Login component state (useState cells) and its pending call
    net,         \* requests and responses in flight, in issue order
    server,      \* the external API's store
    sent,        \* how many requests the handlers of the views have sent
    shown        \* what the last step showed the user: confirm prompt, toasts

vars == <<user, route, taskList, userMgmt, dashboard, loginView, net, server, sent, shown>>

-----------------------------------------------------------------------------
(* Bounds of the model *)

\* the handlers of a session send at most this many requests (create, update,
\* delete); any number of them may be in flight together
MaxRequests == 2
\* the server holds at most this many seed tasks when the session starts
MaxSeed == 2
\* the API reports at most this many tasks in its dashboard counters
MaxTotal == 40
\* GET /tasks answers the dashboard with at most this many tasks
MaxFetched == 6
\* GET /users answers the user management view with at most this many users
MaxListed == 3

-----------------------------------------------------------------------------
(* Values *)

Null == "null"          \* null / undefined for ids, statuses and ISO dates
EmptyStr == ""          \* '' of a string-valued select
NoText == <<"null">>    \* undefined for an optional text field
NoDate == -1            \* null / undefined for a Date object of the draft

Roles == {"admin", "manager", "employee"}
Statuses == {"pending", "in_progress", "completed", "cancelled"}
Priorities == {"low", "medium", "high", "urgent"}

ToLower(c) ==
    CASE c = "A" -> "a"
      [] c = "B" -> "b"
      [] OTHER -> c

\* String.prototype.toLowerCase
ToLowerCase(s) == [i \in 1..Len(s) |-> ToLower(s[i])]

\* String.prototype.includes: t occurs in s at some position
Includes(s, t) ==
    \E i \in 0..(Len(s) - Len(t)) : SubSeq(s, i + 1, i + Len(t)) = t

\* Date.prototype.toISOString and new Date(isoString)
IsoStrings == <<"2026-01-01T00:00:00.000Z", "2026-01-02T00:00:00.000Z">>
ToISOString(d) == IsoStrings[d]
ParseDate(iso) == CHOOSE d \in 1..Len(IsoStrings) : IsoStrings[d] = iso

\* Array.prototype.filter and Array.prototype.map
FilterSeq(s, Keep(_)) == SelectSeq(s, Keep)

MapSeq(s, F(_)) == [i \in 1..Len(s) |-> F(s[i])]

Range(s) == {s[i] : i \in 1..Len(s)}


\* the sequence s without its i-th element
RemoveAt(s, i) == SubSeq(s, 1, i - 1) \o SubSeq(s, i + 1, Len(s))

-----------------------------------------------------------------------------
(* The data the API starts with *)

Txt(a, b) == <<a, b>>

UserRec(id, name, role, dept) ==
    [id |-> id, full_name |-> name, email |-> Txt("a", "b"), role |-> role,
     department |-> dept, phone |-> NoText, is_active |-> TRUE]

Admin == UserRec("u1", Txt("A", "a"), "admin", NoText)
Manager == UserRec("u2", Txt("B", "a"), "manager", Txt("b", "B"))
Employee == UserRec("u3", Txt("a", "B"), "employee", NoText)

SeedUsers == <<Admin, Manager, Employee>>
SessionUsers == Range(SeedUsers)

TaskRec(id, title, desc, status, priority, assignee, due, cat, created) ==
    [id |-> id, title |-> title, description |-> desc, status |-> status,
     priority |-> priority, assigned_to |-> assignee, due_date |-> due,
     category |-> cat, created_at |-> created]

SeedPool ==
    << TaskRec("t1", Txt("A", "b"), NoText, "pending", "high", "u3",
               IsoStrings[1], <<>>, 1),
       TaskRec("t2", Txt("b", "A"), Txt("a", "B"), "in_progress", "medium", "u3",
               Null, <<"B">>, 2),
       TaskRec("t3", Txt("B", "b"), NoText, "cancelled", "low", "u1",
               IsoStrings[2], <<>>, 3),
       TaskRec("t4", Txt("a", "a"), <<>>, "completed", "urgent", "u1",
               Null, <<>>, 4) >>

\* the collections the API may hold at the start: the first tasks of the pool
SeedCollections == {SubSeq(SeedPool, 1, n) : n \in 0..MaxSeed}

\* ids the server gives to the tasks it creates
NewTaskIds == <<"n1", "n2", "n3", "n4", "n5">>


-----------------------------------------------------------------------------
(* The network and the API *)

GetKinds == {"GET_tasks", "GET_users", "GET_stats"}

\* a request as the handler sends it: snap is the collection the handler's
\* closure holds (the tasks of the render the handler was created in)
Request(owner, kind, id, body, snap) ==
    [owner |-> owner, kind |-> kind, id |-> id, body |-> body, snap |-> snap,
     phase |-> "sent", data |-> Null, live |-> TRUE]

\* null where a record is expected (no body, no task, no user)
NoRecord == [none |-> TRUE]

\* error.response?.data?.detail of a failed request: absent or a text
ErrDetails == {Null, "Not allowed"}

Mutations(n) == {i \in 1..Len(n) : n[i].kind \notin GetKinds}

\* the session may send one more request
CanSend == sent < MaxRequests

\* what a step shows: the answer given to its window.confirm prompt (Null
\* when it prompts for nothing) and the toasts it raises
Shown(confirm, toasts) == [confirm |-> confirm, toasts |-> toasts]

Nothing == Shown(Null, <<>>)

Toast(kind, text) == [kind |-> kind, text |-> text]

-----------------------------------------------------------------------------
(* TaskList: state *)

\* the draft of the create dialog
NewTaskDefault ==
    [title |-> <<>>, description |-> <<>>, priority |-> "medium",
     due_date |-> NoDate, assigned_to |-> EmptyStr, category |-> <<>>]

\* the useState cells of TaskList; mounted tells that the effect has run, and
\* now is the clock as the latest render read it (new Date() in isOverdue)
TaskListInit ==
    [mounted |-> FALSE,
     now |-> 1,
     tasks |-> <<>>,
     users |-> <<>>,
     loading |-> TRUE,
     searchTerm |-> <<>>,
     statusFilter |-> "all",
     priorityFilter |-> "all",
     showCreateDialog |-> FALSE,
     showEditDialog |-> FALSE,
     editingTask |-> NoRecord,
     newTask |-> NewTaskDefault]

\* user?.role
UserRole(u) == IF "role" \in DOMAIN u THEN u.role ELSE Null

\* user.id
UserId(u) == IF "id" \in DOMAIN u THEN u.id ELSE Null

-----------------------------------------------------------------------------
(* TaskList: what a render computes *)

\* the search that looks at the title only
MatchesSearch_TitleOnly(task, term) ==
    Includes(ToLowerCase(task.title), ToLowerCase(term))

\* task.title.toLowerCase().includes(term) || task.description?....includes(term)
MatchesSearch(task, term) ==
    \/ Includes(ToLowerCase(task.title), ToLowerCase(term))
    \/ /\ task.description # NoText
       /\ Includes(ToLowerCase(task.description), ToLowerCase(term))

MatchesStatus(task, filter) == filter = "all" \/ task.status = filter

MatchesPriority(task, filter) == filter = "all" \/ task.priority = filter

FilterTasks(tasks, term, sFilter, pFilter) ==
    FilterSeq(tasks, LAMBDA task :
        /\ MatchesSearch(task, term)
        /\ MatchesStatus(task, sFilter)
        /\ MatchesPriority(task, pFilter))

filteredTasks ==
    FilterTasks(taskList.tasks, taskList.searchTerm, taskList.statusFilter,
                taskList.priorityFilter)

\* user?.role === 'admin' || user?.role === 'manager'
CanCreateTask(u) == UserRole(u) = "admin" \/ UserRole(u) = "manager"

\* user?.role !== 'employee' || task.assigned_to === user.id
ShowsTaskMenu(u, task) == UserRole(u) # "employee" \/ task.assigned_to = UserId(u)

\* the Delete item without its role gate
ShowsDeleteItem_NoRoleGate(u, task) == ShowsTaskMenu(u, task)

\* user?.role !== 'employee', inside the menu
ShowsDeleteItem(u, task) == ShowsTaskMenu(u, task) /\ UserRole(u) # "employee"

\* the quick status update without the assignee test
ShowsQuickUpdate_AnyUser(u, task) == task.status # "completed"

\* task.assigned_to === user.id && task.status !== 'completed'
ShowsQuickUpdate(u, task) ==
    task.assigned_to = UserId(u) /\ task.status # "completed"

ShowsStart(u, task) == ShowsQuickUpdate(u, task) /\ task.status = "pending"

\* the Complete button without its status test
ShowsComplete_AnyStatus(u, task) == ShowsQuickUpdate(u, task)

ShowsComplete(u, task) == ShowsQuickUpdate(u, task) /\ task.status = "in_progress"

\* if (!dueDate) return false; return new Date(dueDate) < new Date()
IsOverdue(dueDate) ==
    IF dueDate \in {Null, EmptyStr} THEN FALSE
    ELSE ParseDate(dueDate) < taskList.now

\* the label that leaves completed and cancelled tasks out
ShowsOverdue_OpenTasksOnly(task) ==
    IsOverdue(task.due_date) /\ task.status \notin {"completed", "cancelled"}

\* isOverdue(task.due_date) && ' (Overdue)' on the card of task
ShowsOverdue(task) == IsOverdue(task.due_date)

\* the text 'Unassigned', which is no user's full_name
Unassigned == <<"Unassigned">>

\* getUserName
GetUserName(userId) ==
    IF \E k \in 1..Len(taskList.users) : taskList.users[k].id = userId
    THEN taskList.users[CHOOSE k \in 1..Len(taskList.users) :
                            /\ taskList.users[k].id = userId
                            /\ \A l \in 1..(k - 1) : taskList.users[l].id # userId
                       ].full_name
    ELSE Unassigned

\* task.assigned_to && ..., around the assignee line of a card
ShowsAssignee(task) == task.assigned_to \notin {Null, EmptyStr}

\* the view is past its loading spinner
TaskListRendered == route = "tasks" /\ taskList.mounted /\ ~taskList.loading

\* the cards and filters can be used: the create dialog is modal
CardsUsable == TaskListRendered /\ ~taskList.showCreateDialog


-----------------------------------------------------------------------------
(* TaskList: handlers *)

\* the effect without its role test: fetchTasks() and fetchUsers()
TLMount_AlwaysFetchesUsers ==
    /\ route = "tasks"
    /\ ~taskList.mounted
    /\ taskList' = [taskList EXCEPT !.mounted = TRUE]
    /\ net' = net \o <<Request("TaskList", "GET_tasks", Null, NoRecord, <<>>),
                       Request("TaskList", "GET_users", Null, NoRecord, <<>>)>>
    /\ shown' = Nothing
    /\ UNCHANGED <<loginView, userMgmt, dashboard, sent, user, route, server>>

\* useEffect: fetchTasks(), and fetchUsers() unless the role is employee
TLMount ==
    /\ route = "tasks"
    /\ ~taskList.mounted
    /\ taskList' = [taskList EXCEPT !.mounted = TRUE]
    /\ net' = net \o <<Request("TaskList", "GET_tasks", Null, NoRecord, <<>>)>>
                 \o (IF UserRole(user) # "employee"
                     THEN <<Request("TaskList", "GET_users", Null, NoRecord, <<>>)>>
                     ELSE <<>>)
    /\ shown' = Nothing
    /\ UNCHANGED <<loginView, userMgmt, dashboard, sent, user, route, server>>

\* fetchTasks after its await: try and finally
FetchTasksSettle(i) ==
    /\ net[i].owner = "TaskList" /\ net[i].kind = "GET_tasks"
    /\ net[i].phase = "ok" /\ net[i].live
    /\ taskList' = [taskList EXCEPT !.tasks = net[i].data, !.loading = FALSE]
    /\ shown' = Nothing
    /\ net' = RemoveAt(net, i)
    /\ UNCHANGED <<loginView, userMgmt, dashboard, sent, user, route, server>>

\* a failed fetchTasks that drops the list and keeps the spinner
FetchTasksFail_ClearsAndWaits(i, detail) ==
    /\ net[i].owner = "TaskList" /\ net[i].kind = "GET_tasks"
    /\ net[i].phase = "sent" /\ net[i].live
    /\ taskList' = [taskList EXCEPT !.tasks = <<>>, !.loading = TRUE]
    /\ shown' = Shown(Null, <<Toast("error", "Failed to load tasks")>>)
    /\ net' = RemoveAt(net, i)
    /\ UNCHANGED <<loginView, userMgmt, dashboard, sent, user, route, server>>

\* fetchTasks when the request fails: catch and finally
FetchTasksFail(i, detail) ==
    /\ net[i].owner = "TaskList" /\ net[i].kind = "GET_tasks"
    /\ net[i].phase = "sent" /\ net[i].live
    /\ taskList' = [taskList EXCEPT !.loading = FALSE]
    /\ shown' = Shown(Null, <<Toast("error", "Failed to load tasks")>>)
    /\ net' = RemoveAt(net, i)
    /\ UNCHANGED <<loginView, userMgmt, dashboard, sent, user, route, server>>

\* fetchUsers after its await
FetchUsersSettle(i) ==
    /\ net[i].owner = "TaskList" /\ net[i].kind = "GET_users"
    /\ net[i].phase = "ok" /\ net[i].live
    /\ taskList' = [taskList EXCEPT !.users = net[i].data]
    /\ shown' = Nothing
    /\ net' = RemoveAt(net, i)
    /\ UNCHANGED <<loginView, userMgmt, dashboard, sent, user, route, server>>

\* fetchUsers when the request fails: the error is only logged
FetchUsersFail(i, detail) ==
    /\ net[i].owner = "TaskList" /\ net[i].kind = "GET_users"
    /\ net[i].phase = "sent" /\ net[i].live
    /\ taskList' = taskList
    /\ shown' = Nothing
    /\ net' = RemoveAt(net, i)
    /\ UNCHANGED <<loginView, userMgmt, dashboard, sent, user, route, server>>

\* the filter controls
SetSearchTerm(v) ==
    /\ CardsUsable
    /\ taskList' = [taskList EXCEPT !.searchTerm = v]
    /\ shown' = Nothing
    /\ UNCHANGED <<loginView, userMgmt, dashboard, sent, user, route, net, server>>

SetStatusFilter(v) ==
    /\ CardsUsable
    /\ taskList' = [taskList EXCEPT !.statusFilter = v]
    /\ shown' = Nothing
    /\ UNCHANGED <<loginView, userMgmt, dashboard, sent, user, route, net, server>>

SetPriorityFilter(v) ==
    /\ CardsUsable
    /\ taskList' = [taskList EXCEPT !.priorityFilter = v]
    /\ shown' = Nothing
    /\ UNCHANGED <<loginView, userMgmt, dashboard, sent, user, route, net, server>>

\* the Create Task button of the header is on screen
HeaderCreateRendered == TaskListRendered /\ CanCreateTask(user)

\* the Create Task button of the empty list is on screen
EmptyCreateRendered ==
    TaskListRendered /\ filteredTasks = <<>> /\ CanCreateTask(user)

\* the Create Task button of the header (the dialog's trigger)
ClickCreateTask ==
    /\ CardsUsable
    /\ HeaderCreateRendered
    /\ taskList' = [taskList EXCEPT !.showCreateDialog = TRUE]
    /\ shown' = Nothing
    /\ UNCHANGED <<loginView, userMgmt, dashboard, sent, user, route, net, server>>

\* the Create Task button of the empty list
ClickCreateFirstTask ==
    /\ CardsUsable
    /\ EmptyCreateRendered
    /\ taskList' = [taskList EXCEPT !.showCreateDialog = TRUE]
    /\ shown' = Nothing
    /\ UNCHANGED <<loginView, userMgmt, dashboard, sent, user, route, net, server>>

\* the create dialog is on screen: it is rendered inside the role gate
CreateDialogOpen ==
    TaskListRendered /\ CanCreateTask(user) /\ taskList.showCreateDialog

\* Cancel, or the dialog's onOpenChange(false): the draft is kept
CloseCreateDialog ==
    /\ CreateDialogOpen
    /\ taskList' = [taskList EXCEPT !.showCreateDialog = FALSE]
    /\ shown' = Nothing
    /\ UNCHANGED <<loginView, userMgmt, dashboard, sent, user, route, net, server>>

\* an input of the create form: setNewTask({...newTask, [field]: value})
SetNewTask(field, value) ==
    /\ CreateDialogOpen
    /\ taskList' = [taskList EXCEPT !.newTask = [@ EXCEPT ![field] = value]]
    /\ shown' = Nothing
    /\ UNCHANGED <<loginView, userMgmt, dashboard, sent, user, route, net, server>>

\* a body that carries the selection of the Assign To select as it is
TaskData_AssigneeAsSelected(draft) ==
    [draft EXCEPT
        !.due_date = IF draft.due_date # NoDate
                     THEN ToISOString(draft.due_date) ELSE Null]

\* the body handleCreateTask posts
TaskData(draft) ==
    [draft EXCEPT
        !.due_date = IF draft.due_date # NoDate
                     THEN ToISOString(draft.due_date) ELSE Null,
        !.assigned_to = IF draft.assigned_to # EmptyStr
                        THEN draft.assigned_to ELSE Null]

\* handleCreateTask up to its await; the form requires a title
HandleCreateTask ==
    /\ CreateDialogOpen
    /\ taskList.newTask.title # <<>>
    /\ CanSend
    /\ net' = Append(net, Request("TaskList", "POST_task", Null,
                                  TaskData(taskList.newTask), taskList.tasks))
    /\ sent' = sent + 1
    /\ shown' = Nothing
    /\ UNCHANGED <<loginView, userMgmt, dashboard, user, route, taskList, server>>

\* handleCreateTask after its await: tasks is the array the handler captured
CreateTaskSettle(i) ==
    /\ net[i].owner = "TaskList" /\ net[i].kind = "POST_task"
    /\ net[i].phase = "ok" /\ net[i].live
    /\ taskList' = [taskList EXCEPT !.tasks = <<net[i].data>> \o net[i].snap,
                                    !.showCreateDialog = FALSE,
                                    !.newTask = NewTaskDefault]
    /\ shown' = Shown(Null, <<Toast("success", "Task created successfully!")>>)
    /\ net' = RemoveAt(net, i)
    /\ UNCHANGED <<loginView, userMgmt, dashboard, sent, user, route, server>>

\* handleCreateTask when the request fails: catch
CreateTaskFail(i, detail) ==
    /\ net[i].owner = "TaskList" /\ net[i].kind = "POST_task"
    /\ net[i].phase = "sent" /\ net[i].live
    /\ taskList' = taskList
    /\ shown' = Shown(Null, <<Toast("error", "Failed to create task")>>)
    /\ net' = RemoveAt(net, i)
    /\ UNCHANGED <<loginView, userMgmt, dashboard, sent, user, route, server>>

\* handleUpdateTask up to its await
HandleUpdateTask(taskId, updates) ==
    /\ CanSend
    /\ net' = Append(net, Request("TaskList", "PUT_task", taskId, updates,
                                  taskList.tasks))
    /\ sent' = sent + 1
    /\ UNCHANGED <<loginView, userMgmt, dashboard, user, route, taskList, server>>

\* a continuation that adds the returned task to the list it captured
UpdateTaskSettle_AddsReturned(i) ==
    /\ net[i].owner = "TaskList" /\ net[i].kind = "PUT_task"
    /\ net[i].phase = "ok" /\ net[i].live
    /\ taskList' = [taskList EXCEPT !.tasks = <<net[i].data>> \o net[i].snap]
    /\ shown' = Shown(Null, <<Toast("success", "Task updated successfully!")>>)
    /\ net' = RemoveAt(net, i)
    /\ UNCHANGED <<loginView, userMgmt, dashboard, sent, user, route, server>>

\* handleUpdateTask after its await: tasks is the array the handler captured
UpdateTaskSettle(i) ==
    /\ net[i].owner = "TaskList" /\ net[i].kind = "PUT_task"
    /\ net[i].phase = "ok" /\ net[i].live
    /\ taskList' = [taskList EXCEPT !.tasks =
            MapSeq(net[i].snap, LAMBDA task : IF task.id = net[i].id
                                              THEN net[i].data ELSE task)]
    /\ shown' = Shown(Null, <<Toast("success", "Task updated successfully!")>>)
    /\ net' = RemoveAt(net, i)
    /\ UNCHANGED <<loginView, userMgmt, dashboard, sent, user, route, server>>

\* handleUpdateTask when the request fails: catch
UpdateTaskFail(i, detail) ==
    /\ net[i].owner = "TaskList" /\ net[i].kind = "PUT_task"
    /\ net[i].phase = "sent" /\ net[i].live
    /\ taskList' = taskList
    /\ shown' = Shown(Null, <<Toast("error", "Failed to update task")>>)
    /\ net' = RemoveAt(net, i)
    /\ UNCHANGED <<loginView, userMgmt, dashboard, sent, user, route, server>>

\* the Start button of a card
ClickStart(k) ==
    /\ CardsUsable
    /\ k \in 1..Len(filteredTasks)
    /\ ShowsStart(user, filteredTasks[k])
    /\ HandleUpdateTask(filteredTasks[k].id, [status |-> "in_progress"])
    /\ shown' = Nothing

\* the Complete button of a card
ClickComplete(k) ==
    /\ CardsUsable
    /\ k \in 1..Len(filteredTasks)
    /\ ShowsComplete(user, filteredTasks[k])
    /\ HandleUpdateTask(filteredTasks[k].id, [status |-> "completed"])
    /\ shown' = Nothing

\* the Edit item of a card's menu
ClickEdit(k) ==
    /\ CardsUsable
    /\ k \in 1..Len(filteredTasks)
    /\ ShowsTaskMenu(user, filteredTasks[k])
    /\ taskList' = [taskList EXCEPT !.editingTask = filteredTasks[k],
                                     !.showEditDialog = TRUE]
    /\ shown' = Nothing
    /\ UNCHANGED <<loginView, userMgmt, dashboard, sent, user, route, net, server>>

\* handleDeleteTask without the early return on a declined prompt
HandleDeleteTask_Unconfirmed(taskId, confirmed) ==
    /\ CanSend
    /\ net' = Append(net, Request("TaskList", "DELETE_task", taskId,
                                  NoRecord, taskList.tasks))
    /\ sent' = sent + 1
    /\ shown' = Shown(IF confirmed THEN "yes" ELSE "no", <<>>)
    /\ UNCHANGED <<loginView, userMgmt, dashboard, user, route, taskList, server>>

\* handleDeleteTask up to its await; confirmed is what window.confirm returns
HandleDeleteTask(taskId, confirmed) ==
    /\ confirmed => CanSend
    /\ net' = IF ~confirmed
              THEN net
              ELSE Append(net, Request("TaskList", "DELETE_task", taskId,
                                       NoRecord, taskList.tasks))
    /\ sent' = IF confirmed THEN sent + 1 ELSE sent
    /\ shown' = Shown(IF confirmed THEN "yes" ELSE "no", <<>>)
    /\ UNCHANGED <<loginView, userMgmt, dashboard, user, route, taskList, server>>

\* the Delete item of a card's menu
ClickDelete(k, confirmed) ==
    /\ CardsUsable
    /\ k \in 1..Len(filteredTasks)
    /\ ShowsDeleteItem(user, filteredTasks[k])
    /\ HandleDeleteTask(filteredTasks[k].id, confirmed)

\* handleDeleteTask after its await: tasks is the array the handler captured
DeleteTaskSettle(i) ==
    /\ net[i].owner = "TaskList" /\ net[i].kind = "DELETE_task"
    /\ net[i].phase = "ok" /\ net[i].live
    /\ taskList' = [taskList EXCEPT !.tasks =
            FilterSeq(net[i].snap, LAMBDA task : task.id # net[i].id)]
    /\ shown' = Shown(Null, <<Toast("success", "Task deleted successfully!")>>)
    /\ net' = RemoveAt(net, i)
    /\ UNCHANGED <<loginView, userMgmt, dashboard, sent, user, route, server>>

\* handleDeleteTask when the request fails: catch
DeleteTaskFail(i, detail) ==
    /\ net[i].owner = "TaskList" /\ net[i].kind = "DELETE_task"
    /\ net[i].phase = "sent" /\ net[i].live
    /\ taskList' = taskList
    /\ shown' = Shown(Null, <<Toast("error", "Failed to delete task")>>)
    /\ net' = RemoveAt(net, i)
    /\ UNCHANGED <<loginView, userMgmt, dashboard, sent, user, route, server>>


-----------------------------------------------------------------------------
(* UserManagement: state and what a render computes *)

\* the draft of the Add User dialog
NewUserDefault ==
    [email |-> <<>>, password |-> <<>>, full_name |-> <<>>,
     role |-> "employee", department |-> <<>>, phone |-> <<>>]

\* the useState cells of UserManagement; mounted tells that the effect has run
UserMgmtInit ==
    [mounted |-> FALSE,
     users |-> <<>>,
     loading |-> TRUE,
     searchTerm |-> <<>>,
     roleFilter |-> "all",
     showCreateDialog |-> FALSE,
     showEditDialog |-> FALSE,
     editingUser |-> NoRecord,
     newUser |-> NewUserDefault]

\* a search that looks at the name and the e-mail address only
MatchesUserSearch_NoDepartment(u, term) ==
    \/ Includes(ToLowerCase(u.full_name), ToLowerCase(term))
    \/ Includes(ToLowerCase(u.email), ToLowerCase(term))

\* full_name, email or department?. contains the term, case-insensitively
MatchesUserSearch(u, term) ==
    \/ Includes(ToLowerCase(u.full_name), ToLowerCase(term))
    \/ Includes(ToLowerCase(u.email), ToLowerCase(term))
    \/ /\ u.department # NoText
       /\ Includes(ToLowerCase(u.department), ToLowerCase(term))

MatchesRole(u, filter) == filter = "all" \/ u.role = filter

FilterUsers(users, term, rFilter) ==
    FilterSeq(users, LAMBDA u : MatchesUserSearch(u, term) /\ MatchesRole(u, rFilter))

filteredUsers ==
    FilterUsers(userMgmt.users, userMgmt.searchTerm, userMgmt.roleFilter)

\* u.is_active !== false: a user without the field counts as active
IsActive(u) == IF "is_active" \in DOMAIN u THEN u.is_active # FALSE ELSE TRUE

\* the summary computed over the users that pass the filters
UserStats_OfVisible(users) ==
    LET seen == FilterUsers(users, userMgmt.searchTerm, userMgmt.roleFilter)
    IN [total |-> Len(seen),
        admins |-> Len(FilterSeq(seen, LAMBDA u : u.role = "admin")),
        managers |-> Len(FilterSeq(seen, LAMBDA u : u.role = "manager")),
        employees |-> Len(FilterSeq(seen, LAMBDA u : u.role = "employee")),
        active |-> Len(FilterSeq(seen, IsActive))]

\* const userStats = {total, admins, managers, employees, active}
UserStats(users) ==
    [total |-> Len(users),
     admins |-> Len(FilterSeq(users, LAMBDA u : u.role = "admin")),
     managers |-> Len(FilterSeq(users, LAMBDA u : u.role = "manager")),
     employees |-> Len(FilterSeq(users, LAMBDA u : u.role = "employee")),
     active |-> Len(FilterSeq(users, IsActive))]

userStats == UserStats(userMgmt.users)

\* currentUser?.role === 'admin'
ShowsAddUser(u) == UserRole(u) = "admin"

\* the Edit User item without the test that excludes the own card
ShowsEditUser_OwnCardToo(u, card) == UserRole(u) = "admin"

\* currentUser?.role === 'admin' && currentUser.id !== user.id
ShowsEditUser(u, card) == UserRole(u) = "admin" /\ UserId(u) # card.id

\* the view is past its loading spinner
UserMgmtRendered == route = "users" /\ userMgmt.mounted /\ ~userMgmt.loading

\* the cards and filters can be used: the dialogs are modal
UserCardsUsable ==
    UserMgmtRendered /\ ~userMgmt.showCreateDialog /\ ~userMgmt.showEditDialog

\* the Add User button of the header is on screen
AddUserRendered == UserMgmtRendered /\ ShowsAddUser(user)

\* the Add User button of the empty list is on screen
EmptyAddUserRendered ==
    UserMgmtRendered /\ filteredUsers = <<>> /\ ShowsAddUser(user)

\* the Add User dialog is on screen: it is rendered inside the role gate
CreateUserDialogOpen ==
    UserMgmtRendered /\ ShowsAddUser(user) /\ userMgmt.showCreateDialog

\* the Edit User form is on screen: the dialog is open and editingUser is set
EditUserFormOpen ==
    UserMgmtRendered /\ userMgmt.showEditDialog /\ userMgmt.editingUser # NoRecord

-----------------------------------------------------------------------------
(* UserManagement: handlers *)

\* useEffect: fetchUsers()
UMMount ==
    /\ route = "users"
    /\ ~userMgmt.mounted
    /\ userMgmt' = [userMgmt EXCEPT !.mounted = TRUE]
    /\ net' = Append(net, Request("UserManagement", "GET_users", Null, NoRecord, <<>>))
    /\ shown' = Nothing
    /\ UNCHANGED <<loginView, taskList, dashboard, sent, user, route, server>>

\* fetchUsers after its await: try and finally
UMFetchUsersSettle(i) ==
    /\ net[i].owner = "UserManagement" /\ net[i].kind = "GET_users"
    /\ net[i].phase = "ok" /\ net[i].live
    /\ userMgmt' = [userMgmt EXCEPT !.users = net[i].data, !.loading = FALSE]
    /\ shown' = Nothing
    /\ net' = RemoveAt(net, i)
    /\ UNCHANGED <<loginView, taskList, dashboard, sent, user, route, server>>

\* a failed fetchUsers without its finally block
UMFetchUsersFail_KeepsLoading(i, detail) ==
    /\ net[i].owner = "UserManagement" /\ net[i].kind = "GET_users"
    /\ net[i].phase = "sent" /\ net[i].live
    /\ userMgmt' = userMgmt
    /\ shown' = Shown(Null, <<Toast("error", "Failed to load users")>>)
    /\ net' = RemoveAt(net, i)
    /\ UNCHANGED <<loginView, taskList, dashboard, sent, user, route, server>>

\* fetchUsers when the request fails: catch and finally
UMFetchUsersFail(i, detail) ==
    /\ net[i].owner = "UserManagement" /\ net[i].kind = "GET_users"
    /\ net[i].phase = "sent" /\ net[i].live
    /\ userMgmt' = [userMgmt EXCEPT !.loading = FALSE]
    /\ shown' = Shown(Null, <<Toast("error", "Failed to load users")>>)
    /\ net' = RemoveAt(net, i)
    /\ UNCHANGED <<loginView, taskList, dashboard, sent, user, route, server>>

\* the filter controls
SetUserSearchTerm(v) ==
    /\ UserCardsUsable
    /\ userMgmt' = [userMgmt EXCEPT !.searchTerm = v]
    /\ shown' = Nothing
    /\ UNCHANGED <<loginView, taskList, dashboard, sent, user, route, net, server>>

SetRoleFilter(v) ==
    /\ UserCardsUsable
    /\ userMgmt' = [userMgmt EXCEPT !.roleFilter = v]
    /\ shown' = Nothing
    /\ UNCHANGED <<loginView, taskList, dashboard, sent, user, route, net, server>>

\* the Add User button of the header (the dialog's trigger)
ClickAddUser ==
    /\ UserCardsUsable
    /\ AddUserRendered
    /\ userMgmt' = [userMgmt EXCEPT !.showCreateDialog = TRUE]
    /\ shown' = Nothing
    /\ UNCHANGED <<loginView, taskList, dashboard, sent, user, route, net, server>>

\* the Add User button of the empty list
ClickAddFirstUser ==
    /\ UserCardsUsable
    /\ EmptyAddUserRendered
    /\ userMgmt' = [userMgmt EXCEPT !.showCreateDialog = TRUE]
    /\ shown' = Nothing
    /\ UNCHANGED <<loginView, taskList, dashboard, sent, user, route, net, server>>

\* Cancel, or the dialog's onOpenChange(false): the draft is kept
CloseCreateUserDialog ==
    /\ CreateUserDialogOpen
    /\ userMgmt' = [userMgmt EXCEPT !.showCreateDialog = FALSE]
    /\ shown' = Nothing
    /\ UNCHANGED <<loginView, taskList, dashboard, sent, user, route, net, server>>

\* an input of the Add User form: setNewUser({...newUser, [field]: value})
SetNewUser(field, value) ==
    /\ CreateUserDialogOpen
    /\ userMgmt' = [userMgmt EXCEPT !.newUser = [@ EXCEPT ![field] = value]]
    /\ shown' = Nothing
    /\ UNCHANGED <<loginView, taskList, dashboard, sent, user, route, net, server>>

\* handleCreateUser up to its await; the form requires name, email, password
HandleCreateUser ==
    /\ CreateUserDialogOpen
    /\ userMgmt.newUser.full_name # <<>>
    /\ userMgmt.newUser.email # <<>>
    /\ userMgmt.newUser.password # <<>>
    /\ CanSend
    /\ net' = Append(net, Request("UserManagement", "POST_register", Null,
                                  userMgmt.newUser, userMgmt.users))
    /\ sent' = sent + 1
    /\ shown' = Nothing
    /\ UNCHANGED <<loginView, taskList, dashboard, user, route, userMgmt, server>>

\* handleCreateUser after its await: users is the array the handler captured
CreateUserSettle(i) ==
    /\ net[i].owner = "UserManagement" /\ net[i].kind = "POST_register"
    /\ net[i].phase = "ok" /\ net[i].live
    /\ userMgmt' = [userMgmt EXCEPT !.users = <<net[i].data.user>> \o net[i].snap,
                                    !.showCreateDialog = FALSE,
                                    !.newUser = NewUserDefault]
    /\ shown' = Shown(Null, <<Toast("success", "User created successfully!")>>)
    /\ net' = RemoveAt(net, i)
    /\ UNCHANGED <<loginView, taskList, dashboard, sent, user, route, server>>

\* a failure that closes the Add User dialog and drops the draft
CreateUserFail_ClosesDialog(i, detail) ==
    /\ net[i].owner = "UserManagement" /\ net[i].kind = "POST_register"
    /\ net[i].phase = "sent" /\ net[i].live
    /\ userMgmt' = [userMgmt EXCEPT !.showCreateDialog = FALSE,
                                    !.newUser = NewUserDefault]
    /\ shown' = Shown(Null, <<Toast("error", IF detail # Null THEN detail
                                             ELSE "Failed to create user")>>)
    /\ net' = RemoveAt(net, i)
    /\ UNCHANGED <<loginView, taskList, dashboard, sent, user, route, server>>

\* handleCreateUser when the request fails: the API's detail, else a default
CreateUserFail(i, detail) ==
    /\ net[i].owner = "UserManagement" /\ net[i].kind = "POST_register"
    /\ net[i].phase = "sent" /\ net[i].live
    /\ userMgmt' = userMgmt
    /\ shown' = Shown(Null, <<Toast("error", IF detail # Null THEN detail
                                             ELSE "Failed to create user")>>)
    /\ net' = RemoveAt(net, i)
    /\ UNCHANGED <<loginView, taskList, dashboard, sent, user, route, server>>

\* the Edit User item of a card's menu
ClickEditUser(k) ==
    /\ UserCardsUsable
    /\ k \in 1..Len(filteredUsers)
    /\ ShowsEditUser(user, filteredUsers[k])
    /\ userMgmt' = [userMgmt EXCEPT !.editingUser = filteredUsers[k],
                                    !.showEditDialog = TRUE]
    /\ shown' = Nothing
    /\ UNCHANGED <<loginView, taskList, dashboard, sent, user, route, net, server>>

\* the edit dialog's onOpenChange(false): editingUser is kept
CloseEditUserDialog ==
    /\ EditUserFormOpen
    /\ userMgmt' = [userMgmt EXCEPT !.showEditDialog = FALSE]
    /\ shown' = Nothing
    /\ UNCHANGED <<loginView, taskList, dashboard, sent, user, route, net, server>>

\* a Cancel button that closes the dialog only
CancelEditUser_KeepsUser ==
    /\ EditUserFormOpen
    /\ userMgmt' = [userMgmt EXCEPT !.showEditDialog = FALSE]
    /\ shown' = Nothing
    /\ UNCHANGED <<loginView, taskList, dashboard, sent, user, route, net, server>>

\* the Cancel button of the edit form
CancelEditUser ==
    /\ EditUserFormOpen
    /\ userMgmt' = [userMgmt EXCEPT !.showEditDialog = FALSE,
                                    !.editingUser = NoRecord]
    /\ shown' = Nothing
    /\ UNCHANGED <<loginView, taskList, dashboard, sent, user, route, net, server>>

\* the updates the edit form collects: department and phone '' become null
UserUpdates(form) ==
    [full_name |-> form.full_name,
     email |-> form.email,
     role |-> form.role,
     department |-> IF form.department # <<>> THEN form.department ELSE NoText,
     phone |-> IF form.phone # <<>> THEN form.phone ELSE NoText]

\* handleUpdateUser up to its await
HandleUpdateUser(userId, updates) ==
    /\ CanSend
    /\ net' = Append(net, Request("UserManagement", "PUT_user", userId, updates,
                                  userMgmt.users))
    /\ sent' = sent + 1
    /\ UNCHANGED <<loginView, taskList, dashboard, user, route, userMgmt, server>>

\* the edit form's onSubmit; the form requires name and email
SubmitEditUser(form) ==
    /\ EditUserFormOpen
    /\ form.full_name # <<>> /\ form.email # <<>>
    /\ HandleUpdateUser(userMgmt.editingUser.id, UserUpdates(form))
    /\ shown' = Nothing

\* handleUpdateUser after its await: users is the array the handler captured
UpdateUserSettle(i) ==
    /\ net[i].owner = "UserManagement" /\ net[i].kind = "PUT_user"
    /\ net[i].phase = "ok" /\ net[i].live
    /\ userMgmt' = [userMgmt EXCEPT !.users =
            MapSeq(net[i].snap, LAMBDA u : IF u.id = net[i].id
                                           THEN net[i].data ELSE u),
                                    !.showEditDialog = FALSE,
                                    !.editingUser = NoRecord]
    /\ shown' = Shown(Null, <<Toast("success", "User updated successfully!")>>)
    /\ net' = RemoveAt(net, i)
    /\ UNCHANGED <<loginView, taskList, dashboard, sent, user, route, server>>

\* handleUpdateUser when the request fails: catch
UpdateUserFail(i, detail) ==
    /\ net[i].owner = "UserManagement" /\ net[i].kind = "PUT_user"
    /\ net[i].phase = "sent" /\ net[i].live
    /\ userMgmt' = userMgmt
    /\ shown' = Shown(Null, <<Toast("error", "Failed to update user")>>)
    /\ net' = RemoveAt(net, i)
    /\ UNCHANGED <<loginView, taskList, dashboard, sent, user, route, server>>


-----------------------------------------------------------------------------
(* Dashboard *)

\* the useState cells of Dashboard; mounted tells that the effect has run
DashboardInit ==
    [mounted |-> FALSE, stats |-> NoRecord, recentTasks |-> <<>>, loading |-> TRUE]

\* how many tasks the dashboard keeps: slice(0, 5)
RecentCount == 5

RECURSIVE InsertByCreatedDesc(_, _)
\* t put after the elements that are not older than it
InsertByCreatedDesc(sorted, t) ==
    IF sorted = <<>> THEN <<t>>
    ELSE IF Head(sorted).created_at >= t.created_at
         THEN <<Head(sorted)>> \o InsertByCreatedDesc(Tail(sorted), t)
         ELSE <<t>> \o sorted

RECURSIVE SortByCreatedDesc(_)
\* Array.prototype.sort with (a, b) => b.created_at - a.created_at (stable)
SortByCreatedDesc(s) ==
    IF s = <<>> THEN <<>>
    ELSE InsertByCreatedDesc(SortByCreatedDesc(SubSeq(s, 1, Len(s) - 1)), s[Len(s)])

\* Array.prototype.slice(0, n)
SliceFromStart(s, n) == SubSeq(s, 1, IF Len(s) < n THEN Len(s) ELSE n)

\* the first five tasks as fetched, without the sort
RecentTasks_Unsorted(tasks) == SliceFromStart(tasks, RecentCount)

\* tasksResponse.data.sort(...).slice(0, 5)
RecentTasks(tasks) == SliceFromStart(SortByCreatedDesc(tasks), RecentCount)

\* user?.role !== 'employee', around the Total Employees tile
ShowsTotalEmployees(u) == UserRole(u) # "employee"

\* the Manage Users quick action without its role gate
ShowsManageUsers_Always(u) == TRUE

\* user?.role !== 'employee', around the Manage Users quick action
ShowsManageUsers(u) == UserRole(u) # "employee"

\* the view is past its loading spinner
DashboardRendered == route = "dashboard" /\ dashboard.mounted /\ ~dashboard.loading

TotalEmployeesRendered == DashboardRendered /\ ShowsTotalEmployees(user)

ManageUsersRendered == DashboardRendered /\ ShowsManageUsers(user)

\* the requests of fetchDashboardData that are in flight
DashRequests == {i \in 1..Len(net) : net[i].owner = "Dashboard" /\ net[i].live}

\* the network without the requests of fetchDashboardData
WithoutDashRequests == SelectSeq(net, LAMBDA r : ~(r.owner = "Dashboard" /\ r.live))

\* useEffect: fetchDashboardData() up to its await on Promise.all
DashMount ==
    /\ route = "dashboard"
    /\ ~dashboard.mounted
    /\ dashboard' = [dashboard EXCEPT !.mounted = TRUE]
    /\ net' = net \o <<Request("Dashboard", "GET_stats", Null, NoRecord, <<>>),
                       Request("Dashboard", "GET_tasks", Null, NoRecord, <<>>)>>
    /\ shown' = Nothing
    /\ UNCHANGED <<loginView, taskList, userMgmt, sent, user, route, server>>

\* fetchDashboardData after its await: both requests have succeeded
DashSettle ==
    /\ DashRequests # {}
    /\ \A i \in DashRequests : net[i].phase = "ok"
    /\ \E i, j \in DashRequests :
         /\ net[i].kind = "GET_stats" /\ net[j].kind = "GET_tasks"
         /\ dashboard' = [dashboard EXCEPT !.stats = net[i].data,
                                           !.recentTasks = RecentTasks(net[j].data),
                                           !.loading = FALSE]
    /\ net' = WithoutDashRequests
    /\ shown' = Nothing
    /\ UNCHANGED <<loginView, taskList, userMgmt, sent, user, route, server>>

\* a failure that keeps the stats of a stats request already answered
DashFail_StatsKept(i, detail) ==
    /\ i \in DashRequests
    /\ net[i].phase = "sent"
    /\ dashboard' =
         [dashboard EXCEPT !.loading = FALSE,
                           !.stats = IF \E j \in DashRequests : net[j].phase = "ok"
                                     THEN net[CHOOSE j \in DashRequests :
                                                  net[j].phase = "ok"].data
                                     ELSE NoRecord]
    /\ net' = WithoutDashRequests
    /\ shown' = Shown(Null, <<Toast("error", "Failed to load dashboard data")>>)
    /\ UNCHANGED <<loginView, taskList, userMgmt, sent, user, route, server>>

\* fetchDashboardData when one of the two requests fails: Promise.all rejects
\* at once, whatever the other request does; catch and finally
DashFail(i, detail) ==
    /\ i \in DashRequests
    /\ net[i].phase = "sent"
    /\ dashboard' = [dashboard EXCEPT !.loading = FALSE]
    /\ net' = WithoutDashRequests
    /\ shown' = Shown(Null, <<Toast("error", "Failed to load dashboard data")>>)
    /\ UNCHANGED <<loginView, taskList, userMgmt, sent, user, route, server>>

-----------------------------------------------------------------------------
(* Numbers: the IEEE-754 double arithmetic of the percentage *)

\* bits of the significand of a Number
MantissaBits == 53
\* quotient bits the division works out before it rounds
QuotientBits == 64

\* the Number 0
Zero == [zero |-> TRUE]

\* a positive Number: m holds the significand's bits, first the leading 1,
\* whose weight is 2^e
Double(e, m) == [zero |-> FALSE, e |-> e, m |-> m]

Reverse(bits) == [i \in 1..Len(bits) |-> bits[Len(bits) + 1 - i]]

\* the significand plus one unit in its last place; all ones carry out
Increment(m) ==
    IF \A i \in 1..Len(m) : m[i] = 1
    THEN [carry |-> TRUE, m |-> [i \in 1..Len(m) |-> IF i = 1 THEN 1 ELSE 0]]
    ELSE LET k == CHOOSE i \in 1..Len(m) :
                      m[i] = 0 /\ \A j \in (i + 1)..Len(m) : m[j] = 1
         IN [carry |-> FALSE,
             m |-> [i \in 1..Len(m) |-> IF i < k THEN m[i]
                                        ELSE IF i = k THEN 1 ELSE 0]]

\* round to nearest, ties to even: the exact value has the bits given, the
\* first of weight 2^eTop, and something more beyond them when sticky
RoundToDouble(bits, eTop, sticky) ==
    IF \A i \in 1..Len(bits) : bits[i] = 0 THEN Zero
    ELSE LET k == CHOOSE i \in 1..Len(bits) :
                      bits[i] = 1 /\ \A j \in 1..(i - 1) : bits[j] = 0
             At(i) == IF k - 1 + i <= Len(bits) THEN bits[k - 1 + i] ELSE 0
             m == [i \in 1..MantissaBits |-> At(i)]
             roundBit == At(MantissaBits + 1)
             rest == sticky \/ \E i \in (k + MantissaBits + 1)..Len(bits) : bits[i] = 1
             up == roundBit = 1 /\ (rest \/ m[MantissaBits] = 1)
             inc == Increment(m)
         IN IF ~up THEN Double(eTop - (k - 1), m)
            ELSE Double(eTop - (k - 1) + (IF inc.carry THEN 1 ELSE 0), inc.m)

RECURSIVE LongDivision(_, _, _)
\* the bits of r / t after the bits done, up to QuotientBits of them, the
\* first of weight 2^0, and what is left (r <= t)
LongDivision(r, t, done) ==
    IF Len(done) = QuotientBits THEN [bits |-> done, rem |-> r]
    ELSE LongDivision(2 * (r % t), t, Append(done, r \div t))

\* a / b for integers 0 <= a <= b, b > 0
FloatDivide(a, b) ==
    IF a = 0 THEN Zero
    ELSE LET d == LongDivision(a, b, <<>>)
         IN RoundToDouble(d.bits, 0, d.rem # 0)

RECURSIVE AddBits(_, _, _)
\* the sum of two bit strings of one length, least significant bit first
AddBits(a, b, carry) ==
    IF a = <<>> THEN <<>>
    ELSE <<(Head(a) + Head(b) + carry) % 2>>
         \o AddBits(Tail(a), Tail(b), (Head(a) + Head(b) + carry) \div 2)

\* the bits of a natural number, least significant first, in a given width
RECURSIVE BitsOf(_, _)
BitsOf(n, width) ==
    IF width = 0 THEN <<>> ELSE <<n % 2>> \o BitsOf(n \div 2, width - 1)

\* bits times 2^j in the same width, least significant bit first
ShiftLeft(bits, j) ==
    [i \in 1..Len(bits) |-> IF i <= j THEN 0 ELSE bits[i - j]]

RECURSIVE MultiplyBits(_, _, _)
\* bits times the number whose bits, from weight 2^j on, are kbits
MultiplyBits(bits, kbits, j) ==
    IF kbits = <<>> THEN [i \in 1..Len(bits) |-> 0]
    ELSE AddBits(IF Head(kbits) = 1 THEN ShiftLeft(bits, j)
                 ELSE [i \in 1..Len(bits) |-> 0],
                 MultiplyBits(bits, Tail(kbits), j + 1), 0)

\* bits needed for an integer factor up to 255
FactorBits == 8

\* x * k for a Number x >= 0 and an integer 0 < k < 256
FloatTimes(x, k) ==
    IF x.zero THEN Zero
    ELSE LET wide == Reverse(x.m) \o [i \in 1..FactorBits |-> 0]
             product == MultiplyBits(wide, BitsOf(k, FactorBits), 0)
         IN RoundToDouble(Reverse(product), x.e + FactorBits, FALSE)

RECURSIVE BitsToInt(_)
\* the natural number whose bits are given, most significant first
BitsToInt(bits) ==
    IF bits = <<>> THEN 0
    ELSE 2 * BitsToInt(SubSeq(bits, 1, Len(bits) - 1)) + bits[Len(bits)]

\* Math.round for a Number 0 <= x < 2^30: the nearest integer, a half goes up
MathRound(x) ==
    IF x.zero THEN 0
    ELSE IF x.e < -1 THEN 0
    ELSE IF x.e = -1 THEN 1
    ELSE BitsToInt(SubSeq(x.m, 1, x.e + 1)) + x.m[x.e + 2]

\* stats?.total_tasks > 0 ? Math.round((completed / total) * 100) : 0
CompletionRate(stats) ==
    IF stats # NoRecord /\ stats.total_tasks > 0
    THEN MathRound(FloatTimes(FloatDivide(stats.completed_tasks, stats.total_tasks), 100))
    ELSE 0

completionRate == CompletionRate(dashboard.stats)

\* stats?.field || 0, as the tiles and the progress card show a counter
Counter(stats, field) == IF stats # NoRecord THEN stats[field] ELSE 0

-----------------------------------------------------------------------------
(* Login (src/login.js) *)

\* the useState cells of Login; awaiting is the call of login() that
\* handleSubmit waits for, with its result once the call has returned
LoginInit ==
    [formData |-> [email |-> EmptyStr, password |-> EmptyStr],
     loading |-> FALSE, error |-> EmptyStr, showPassword |-> FALSE,
     awaiting |-> NoRecord]

\* if (user) return <Navigate to="/dashboard" replace />: the form is rendered
\* only without a current user
LoginFormRendered == route = "login" /\ user = NoRecord

demoCredentials ==
    [admin |-> [email |-> "admin@company.com", password |-> "admin123"],
     manager |-> [email |-> "manager@company.com", password |-> "manager123"],
     employee |-> [email |-> "employee@company.com", password |-> "employee123"]]

\* handleChange
HandleChange(name, value) ==
    /\ LoginFormRendered
    /\ loginView' = [loginView EXCEPT !.formData[name] = value]
    /\ shown' = Nothing
    /\ UNCHANGED <<taskList, userMgmt, dashboard, net, sent, user, route, server>>

\* the eye button of the password field
ToggleShowPassword ==
    /\ LoginFormRendered
    /\ loginView' = [loginView EXCEPT !.showPassword = ~@]
    /\ shown' = Nothing
    /\ UNCHANGED <<taskList, userMgmt, dashboard, net, sent, user, route, server>>

\* fillDemoCredentials
FillDemoCredentials(role) ==
    /\ LoginFormRendered
    /\ loginView' = [loginView EXCEPT !.formData = demoCredentials[role]]
    /\ shown' = Shown(Null, <<Toast("info", <<"Demo ", role, " credentials filled">>)>>)
    /\ UNCHANGED <<taskList, userMgmt, dashboard, net, sent, user, route, server>>

\* a submission that leaves the error of the attempt before in place
HandleSubmit_KeepsError ==
    /\ LoginFormRendered
    /\ ~loginView.loading
    /\ loginView.formData.email # EmptyStr
    /\ loginView.formData.password # EmptyStr
    /\ loginView' = [loginView EXCEPT !.loading = TRUE,
                                       !.awaiting = [credentials |-> loginView.formData,
                                                     result |-> NoRecord]]
    /\ shown' = Nothing
    /\ UNCHANGED <<taskList, userMgmt, dashboard, net, sent, user, route, server>>

\* handleSubmit up to its await on login(): the submit button is disabled
\* while loading and both inputs are required
HandleSubmit ==
    /\ LoginFormRendered
    /\ ~loginView.loading
    /\ loginView.formData.email # EmptyStr
    /\ loginView.formData.password # EmptyStr
    /\ loginView' = [loginView EXCEPT !.loading = TRUE,
                                       !.error = EmptyStr,
                                       !.awaiting = [credentials |-> loginView.formData,
                                                     result |-> NoRecord]]
    /\ shown' = Nothing
    /\ UNCHANGED <<taskList, userMgmt, dashboard, net, sent, user, route, server>>

\* the messages a refused login comes back with
LoginErrors == {"Invalid credentials", "Login failed"}

\* what login() resolves to: success, the context holding the user from then
\* on, or failure with an error message
LoginResults ==
    {[success |-> TRUE, user |-> u, error |-> Null] : u \in SessionUsers}
    \cup {[success |-> FALSE, user |-> NoRecord, error |-> m] : m \in LoginErrors}

\* login() of the auth context returns
AuthLogin(result) ==
    /\ loginView.awaiting # NoRecord
    /\ loginView.awaiting.result = NoRecord
    /\ user' = IF result.success THEN result.user ELSE user
    /\ loginView' = [loginView EXCEPT !.awaiting.result = result]
    /\ shown' = Nothing
    /\ UNCHANGED <<taskList, userMgmt, dashboard, net, sent, route, server>>

\* handleSubmit after its await; a component that was unmounted meanwhile
\* keeps no state to set
LoginSettle ==
    /\ loginView.awaiting # NoRecord
    /\ loginView.awaiting.result # NoRecord
    /\ LET result == loginView.awaiting.result
       IN /\ loginView' =
               IF route = "login"
               THEN [loginView EXCEPT !.loading = FALSE,
                                      !.error = IF result.success THEN @
                                                ELSE result.error,
                                      !.awaiting = NoRecord]
               ELSE [loginView EXCEPT !.awaiting = NoRecord]
          /\ shown' = IF result.success
                      THEN Shown(Null, <<Toast("success",
                                               "Welcome back! Login successful.")>>)
                      ELSE Shown(Null, <<Toast("error", result.error)>>)
    /\ UNCHANGED <<taskList, userMgmt, dashboard, net, sent, user, route, server>>

\* login() rejects: the await in handleSubmit throws, no try surrounds it
\* and none of the statements after it runs
LoginRejects ==
    /\ loginView.awaiting # NoRecord
    /\ loginView.awaiting.result = NoRecord
    /\ loginView' = [loginView EXCEPT !.awaiting = NoRecord]
    /\ shown' = Nothing
    /\ UNCHANGED <<taskList, userMgmt, dashboard, net, sent, user, route, server>>

\* <Navigate to="/dashboard" replace />: Login is unmounted, the call it may
\* still wait for goes on
LoginRedirect ==
    /\ route = "login"
    /\ user # NoRecord
    /\ route' = "dashboard"
    /\ loginView' = [LoginInit EXCEPT !.awaiting = loginView.awaiting]
    /\ shown' = Nothing
    /\ UNCHANGED <<taskList, userMgmt, dashboard, net, sent, user, server>>

-----------------------------------------------------------------------------
(* Navigation and the change of view *)

navItems ==
    << [to |-> "dashboard", label |-> "Dashboard",
        allowed |-> {"admin", "manager", "employee"}],
       [to |-> "tasks", label |-> "Tasks",
        allowed |-> {"admin", "manager", "employee"}],
       [to |-> "users", label |-> "User Management",
        allowed |-> {"admin", "manager"}] >>

\* navItems.filter(item => item.allowed.includes(user?.role))
NavItemsFor(u) == FilterSeq(navItems, LAMBDA item : UserRole(u) \in item.allowed)

filteredNavItems == NavItemsFor(user)

\* the requests of the view that is left: their answers reach no component;
\* a read that nobody waits for is dropped here
Orphaned(n) ==
    MapSeq(SelectSeq(n, LAMBDA r : r.kind \notin GetKinds),
           LAMBDA r : [r EXCEPT !.live = FALSE])

\* the view at path to is mounted afresh; the view that is left is unmounted
Enter(to) ==
    /\ route' = to
    /\ taskList' = TaskListInit
    /\ userMgmt' = UserMgmtInit
    /\ dashboard' = DashboardInit
    /\ loginView' = LoginInit
    /\ net' = Orphaned(net)
    /\ shown' = Nothing
    /\ UNCHANGED <<sent, user, server>>

\* a link of the navigation bar
Navigate(k) ==
    /\ k \in 1..Len(filteredNavItems)
    /\ filteredNavItems[k].to # route
    /\ Enter(filteredNavItems[k].to)

\* the quick actions of the dashboard: they load the page anew
ClickViewAllTasks == DashboardRendered /\ Enter("tasks")

ClickManageUsers == ManageUsersRendered /\ Enter("users")

ClickRefreshData == DashboardRendered /\ Enter("dashboard")

-----------------------------------------------------------------------------
(* The API (section 6 of the specification) *)

ServerInit(seed) ==
    [tasks |-> seed, users |-> SeedUsers, created |-> 0, registered |-> 0]

Merge(rec, updates) ==
    [f \in DOMAIN rec |-> IF f \in DOMAIN updates THEN updates[f] ELSE rec[f]]

HasTask(id) == \E j \in 1..Len(server.tasks) : server.tasks[j].id = id

TaskOf(id) ==
    server.tasks[CHOOSE j \in 1..Len(server.tasks) : server.tasks[j].id = id]

\* POST /tasks: the created task gets a fresh id and the status pending
CreatedTask(body) ==
    TaskRec(NewTaskIds[server.created + 1], body.title, body.description,
            "pending", body.priority, body.assigned_to, body.due_date,
            body.category, Len(SeedPool) + server.created + 1)

Reply(i, data) == [net EXCEPT ![i].phase = "ok", ![i].data = data]

ServerGetTasks(i) ==
    /\ net[i].phase = "sent" /\ net[i].kind = "GET_tasks"
    /\ net' = Reply(i, server.tasks)
    /\ shown' = Nothing
    /\ UNCHANGED <<loginView, userMgmt, dashboard, sent, user, route, taskList, server>>

ServerGetUsers(i) ==
    /\ net[i].phase = "sent" /\ net[i].kind = "GET_users"
    /\ net' = Reply(i, server.users)
    /\ shown' = Nothing
    /\ UNCHANGED <<loginView, userMgmt, dashboard, sent, user, route, taskList, server>>

ServerPostTask(i) ==
    /\ net[i].phase = "sent" /\ net[i].kind = "POST_task"
    /\ net' = Reply(i, CreatedTask(net[i].body))
    /\ server' = [server EXCEPT !.tasks = Append(@, CreatedTask(net[i].body)),
                                 !.created = @ + 1]
    /\ shown' = Nothing
    /\ UNCHANGED <<loginView, userMgmt, dashboard, sent, user, route, taskList>>

ServerPutTask(i) ==
    /\ net[i].phase = "sent" /\ net[i].kind = "PUT_task"
    /\ HasTask(net[i].id)
    /\ net' = Reply(i, Merge(TaskOf(net[i].id), net[i].body))
    /\ server' = [server EXCEPT !.tasks =
            MapSeq(@, LAMBDA t : IF t.id = net[i].id
                                 THEN Merge(t, net[i].body) ELSE t)]
    /\ shown' = Nothing
    /\ UNCHANGED <<loginView, userMgmt, dashboard, sent, user, route, taskList>>

ServerDeleteTask(i) ==
    /\ net[i].phase = "sent" /\ net[i].kind = "DELETE_task"
    /\ HasTask(net[i].id)
    /\ net' = Reply(i, Null)
    /\ server' = [server EXCEPT !.tasks =
            FilterSeq(@, LAMBDA t : t.id # net[i].id)]
    /\ shown' = Nothing
    /\ UNCHANGED <<loginView, userMgmt, dashboard, sent, user, route, taskList>>

\* ids the server gives to the users it registers
NewUserIds == <<"v1", "v2", "v3", "v4", "v5">>

CountWhere(s, P(_)) == Cardinality({i \in 1..Len(s) : P(s[i])})

\* GET /dashboard/stats: the counters the API aggregates
Stats ==
    [total_employees |-> CountWhere(server.users, LAMBDA u : u.role = "employee"),
     total_tasks |-> Len(server.tasks),
     completed_tasks |-> CountWhere(server.tasks, LAMBDA t : t.status = "completed"),
     pending_tasks |-> CountWhere(server.tasks, LAMBDA t : t.status = "pending"),
     in_progress_tasks |-> CountWhere(server.tasks, LAMBDA t : t.status = "in_progress"),
     overdue_tasks |-> CountWhere(server.tasks, LAMBDA t :
                          t.due_date # Null /\ t.status \notin {"completed", "cancelled"})]

ServerGetStats(i) ==
    /\ net[i].phase = "sent" /\ net[i].kind = "GET_stats"
    /\ net' = Reply(i, Stats)
    /\ shown' = Nothing
    /\ UNCHANGED <<loginView, taskList, userMgmt, dashboard, sent, user, route, server>>

HasUser(id) == \E j \in 1..Len(server.users) : server.users[j].id = id

UserOf(id) ==
    server.users[CHOOSE j \in 1..Len(server.users) : server.users[j].id = id]

\* POST /auth/register: the registered user gets a fresh id
RegisteredUser(body) ==
    [id |-> NewUserIds[server.registered + 1], full_name |-> body.full_name,
     email |-> body.email, role |-> body.role,
     department |-> body.department, phone |-> body.phone, is_active |-> TRUE]

ServerPostRegister(i) ==
    /\ net[i].phase = "sent" /\ net[i].kind = "POST_register"
    /\ net' = Reply(i, [user |-> RegisteredUser(net[i].body)])
    /\ server' = [server EXCEPT !.users = Append(@, RegisteredUser(net[i].body)),
                                 !.registered = @ + 1]
    /\ shown' = Nothing
    /\ UNCHANGED <<loginView, taskList, userMgmt, dashboard, sent, user, route>>

ServerPutUser(i) ==
    /\ net[i].phase = "sent" /\ net[i].kind = "PUT_user"
    /\ HasUser(net[i].id)
    /\ net' = Reply(i, Merge(UserOf(net[i].id), net[i].body))
    /\ server' = [server EXCEPT !.users =
            MapSeq(@, LAMBDA u : IF u.id = net[i].id
                                 THEN Merge(u, net[i].body) ELSE u)]
    /\ shown' = Nothing
    /\ UNCHANGED <<loginView, taskList, userMgmt, dashboard, sent, user, route>>


-----------------------------------------------------------------------------
(* The task list view *)

\* what the user types and picks in this model
SearchInputs == {<<>>}
StatusFilterInputs == {"all", "pending"}
PriorityFilterInputs == {"all"}
DraftInputs == {<<"title", <<"B">>>>}

Init ==
    /\ user \in SessionUsers
    /\ route = "tasks"
    /\ taskList = TaskListInit
    /\ net = <<>>
    /\ sent = 0
    /\ userMgmt = UserMgmtInit
    /\ dashboard = DashboardInit
    /\ server \in {ServerInit(seed) : seed \in SeedCollections}
    /\ shown = Nothing
    /\ loginView = LoginInit

Next ==
    \/ TLMount
    \/ \E i \in 1..Len(net) : ServerGetTasks(i)
    \/ \E i \in 1..Len(net) : ServerGetUsers(i)
    \/ \E i \in 1..Len(net) : ServerPostTask(i)
    \/ \E i \in 1..Len(net) : ServerPutTask(i)
    \/ \E i \in 1..Len(net) : ServerDeleteTask(i)
    \/ \E i \in 1..Len(net) : FetchTasksSettle(i)
    \/ \E i \in 1..Len(net) : FetchUsersSettle(i)
    \/ \E i \in 1..Len(net) : CreateTaskSettle(i)
    \/ \E i \in 1..Len(net) : UpdateTaskSettle(i)
    \/ \E i \in 1..Len(net) : DeleteTaskSettle(i)
    \/ \E i \in 1..Len(net), d \in ErrDetails : FetchTasksFail(i, d)
    \/ \E i \in 1..Len(net), d \in ErrDetails : FetchUsersFail(i, d)
    \/ \E i \in 1..Len(net), d \in ErrDetails : CreateTaskFail(i, d)
    \/ \E i \in 1..Len(net), d \in ErrDetails : UpdateTaskFail(i, d)
    \/ \E i \in 1..Len(net), d \in ErrDetails : DeleteTaskFail(i, d)
    \/ \E v \in SearchInputs : SetSearchTerm(v)
    \/ \E v \in StatusFilterInputs : SetStatusFilter(v)
    \/ \E v \in PriorityFilterInputs : SetPriorityFilter(v)
    \/ ClickCreateTask
    \/ ClickCreateFirstTask
    \/ CloseCreateDialog
    \/ \E e \in DraftInputs : SetNewTask(e[1], e[2])
    \/ HandleCreateTask
    \/ \E k \in 1..Len(filteredTasks) : ClickStart(k)
    \/ \E k \in 1..Len(filteredTasks) : ClickComplete(k)
    \/ \E k \in 1..Len(filteredTasks), c \in BOOLEAN : ClickDelete(k, c)

Spec == Init /\ [][Next]_vars

-----------------------------------------------------------------------------
(* The task list view with the Edit item of the card menus *)

\* the API answers and the continuations the event loop runs
Responses ==
    \/ \E i \in 1..Len(net) : ServerGetTasks(i)
    \/ \E i \in 1..Len(net) : ServerGetUsers(i)
    \/ \E i \in 1..Len(net) : ServerPostTask(i)
    \/ \E i \in 1..Len(net) : ServerPutTask(i)
    \/ \E i \in 1..Len(net) : ServerDeleteTask(i)
    \/ \E i \in 1..Len(net) : FetchTasksSettle(i)
    \/ \E i \in 1..Len(net) : FetchUsersSettle(i)
    \/ \E i \in 1..Len(net) : CreateTaskSettle(i)
    \/ \E i \in 1..Len(net) : UpdateTaskSettle(i)
    \/ \E i \in 1..Len(net) : DeleteTaskSettle(i)

NextEdit ==
    \/ Next
    \/ \E k \in 1..Len(filteredTasks) : ClickEdit(k)

\* a request that is answered is settled: the event loop runs what is ready
SpecEdit == Init /\ [][NextEdit]_vars /\ WF_vars(TLMount) /\ WF_vars(Responses)

-----------------------------------------------------------------------------
(* The task list view under its filters *)

FilterSearchInputs ==
    {<<>>, <<"a">>, <<"B">>, <<"A", "b">>, <<"b", "a">>, <<"b", "b", "b">>}
FilterStatusInputs == Statuses \cup {"all"}
FilterPriorityInputs == Priorities \cup {"all"}

InitFilter ==
    /\ user \in SessionUsers
    /\ route = "tasks"
    /\ taskList = TaskListInit
    /\ userMgmt = UserMgmtInit
    /\ dashboard = DashboardInit
    /\ net = <<>>
    /\ sent = 0
    /\ server \in {ServerInit(seed) : seed \in SeedCollections \cup {SeedPool}}
    /\ shown = Nothing
    /\ loginView = LoginInit

NextFilter ==
    \/ TLMount
    \/ \E i \in 1..Len(net) : ServerGetTasks(i)
    \/ \E i \in 1..Len(net) : ServerGetUsers(i)
    \/ \E i \in 1..Len(net) : FetchTasksSettle(i)
    \/ \E i \in 1..Len(net) : FetchUsersSettle(i)
    \/ \E i \in 1..Len(net), d \in ErrDetails : FetchTasksFail(i, d)
    \/ \E i \in 1..Len(net), d \in ErrDetails : FetchUsersFail(i, d)
    \/ \E v \in FilterSearchInputs : SetSearchTerm(v)
    \/ \E v \in FilterStatusInputs : SetStatusFilter(v)
    \/ \E v \in FilterPriorityInputs : SetPriorityFilter(v)

SpecFilter == InitFilter /\ [][NextFilter]_vars

-----------------------------------------------------------------------------
(* Navigation, the dashboard and the user management view *)

\* a session whose user carries a role outside the vocabulary
Guest == UserRec("u9", Txt("b", "b"), "guest", NoText)

\* the sessions of this view of the application: the user may be absent
ShellSessions == SessionUsers \cup {Guest, NoRecord}

\* the paths the browser may be opened on
Paths == {"dashboard", "tasks", "users"}

\* what the user types and picks in this model
UserSearchInputs == {<<>>, <<"B">>}
RoleFilterInputs == {"all", "admin"}
UserDraftInputs ==
    {<<"full_name", <<"A">>>>, <<"email", <<"a">>>>, <<"password", <<"b">>>>}
EditForms ==
    {[full_name |-> <<"A">>, email |-> <<"a">>, role |-> "admin",
      department |-> <<>>, phone |-> <<>>],
     [full_name |-> <<"B">>, email |-> <<>>, role |-> "employee",
      department |-> <<"B">>, phone |-> <<"b">>]}

InitShell ==
    /\ user \in ShellSessions
    /\ route \in Paths
    /\ taskList = TaskListInit
    /\ userMgmt = UserMgmtInit
    /\ dashboard = DashboardInit
    /\ net = <<>>
    /\ sent = 0
    /\ server = ServerInit(SubSeq(SeedPool, 1, MaxSeed))
    /\ shown = Nothing
    /\ loginView = LoginInit

NextShell ==
    \/ TLMount
    \/ UMMount
    \/ DashMount
    \/ \E i \in 1..Len(net) : ServerGetTasks(i)
    \/ \E i \in 1..Len(net) : ServerGetUsers(i)
    \/ \E i \in 1..Len(net) : ServerGetStats(i)
    \/ \E i \in 1..Len(net) : FetchTasksSettle(i)
    \/ \E i \in 1..Len(net) : FetchUsersSettle(i)
    \/ \E i \in 1..Len(net), d \in ErrDetails : FetchTasksFail(i, d)
    \/ \E i \in 1..Len(net), d \in ErrDetails : FetchUsersFail(i, d)
    \/ DashSettle
    \/ \E i \in 1..Len(net), d \in ErrDetails : DashFail(i, d)
    \/ \E i \in 1..Len(net) : UMFetchUsersSettle(i)
    \/ \E i \in 1..Len(net), d \in ErrDetails : UMFetchUsersFail(i, d)
    \/ \E v \in UserSearchInputs : SetUserSearchTerm(v)
    \/ \E v \in RoleFilterInputs : SetRoleFilter(v)
    \/ ClickAddUser
    \/ ClickAddFirstUser
    \/ CloseCreateUserDialog
    \/ \E k \in 1..Len(filteredNavItems) : Navigate(k)
    \/ ClickViewAllTasks
    \/ ClickManageUsers
    \/ ClickRefreshData

SpecShell == InitShell /\ [][NextShell]_vars

-----------------------------------------------------------------------------
(* The user management view *)

InitUsers ==
    /\ user \in SessionUsers
    /\ route = "users"
    /\ taskList = TaskListInit
    /\ userMgmt = UserMgmtInit
    /\ dashboard = DashboardInit
    /\ net = <<>>
    /\ sent = 0
    /\ server = ServerInit(SubSeq(SeedPool, 1, MaxSeed))
    /\ shown = Nothing
    /\ loginView = LoginInit

NextUsers ==
    \/ UMMount
    \/ \E i \in 1..Len(net) : ServerGetUsers(i)
    \/ \E i \in 1..Len(net) : ServerPostRegister(i)
    \/ \E i \in 1..Len(net) : ServerPutUser(i)
    \/ \E i \in 1..Len(net) : UMFetchUsersSettle(i)
    \/ \E i \in 1..Len(net), d \in ErrDetails : UMFetchUsersFail(i, d)
    \/ \E v \in UserSearchInputs : SetUserSearchTerm(v)
    \/ \E v \in RoleFilterInputs : SetRoleFilter(v)
    \/ ClickAddUser
    \/ ClickAddFirstUser
    \/ CloseCreateUserDialog
    \/ \E e \in UserDraftInputs : SetNewUser(e[1], e[2])
    \/ HandleCreateUser
    \/ \E i \in 1..Len(net) : CreateUserSettle(i)
    \/ \E i \in 1..Len(net), d \in ErrDetails : CreateUserFail(i, d)
    \/ \E k \in 1..Len(filteredUsers) : ClickEditUser(k)
    \/ CloseEditUserDialog
    \/ CancelEditUser
    \/ \E f \in EditForms : SubmitEditUser(f)
    \/ \E i \in 1..Len(net) : UpdateUserSettle(i)
    \/ \E i \in 1..Len(net), d \in ErrDetails : UpdateUserFail(i, d)

SpecUsers == InitUsers /\ [][NextUsers]_vars

-----------------------------------------------------------------------------
(* The dashboard over an API that reports its counters *)

\* the counters of an API that holds total tasks, completed of them done
StatsOf(total, completed) ==
    [total_employees |-> 1, total_tasks |-> total,
     completed_tasks |-> completed, pending_tasks |-> total - completed,
     in_progress_tasks |-> 0, overdue_tasks |-> 0]

StatsInputs ==
    {StatsOf(t, c) : <<t, c>> \in {p \in (0..MaxTotal) \X (0..MaxTotal) : p[2] <= p[1]}}

\* GET /dashboard/stats answered by an API whose tasks are not enumerated
ServerReportStats(i, stats) ==
    /\ net[i].phase = "sent" /\ net[i].kind = "GET_stats"
    /\ net' = Reply(i, stats)
    /\ shown' = Nothing
    /\ UNCHANGED <<loginView, taskList, userMgmt, dashboard, sent, user, route, server>>

InitRate ==
    /\ user \in SessionUsers
    /\ route = "dashboard"
    /\ taskList = TaskListInit
    /\ userMgmt = UserMgmtInit
    /\ dashboard = DashboardInit
    /\ net = <<>>
    /\ sent = 0
    /\ server = ServerInit(SubSeq(SeedPool, 1, MaxSeed))
    /\ shown = Nothing
    /\ loginView = LoginInit

NextRate ==
    \/ DashMount
    \/ \E i \in 1..Len(net) : ServerGetTasks(i)
    \/ \E i \in 1..Len(net), s \in StatsInputs : ServerReportStats(i, s)
    \/ DashSettle
    \/ \E i \in 1..Len(net), d \in ErrDetails : DashFail(i, d)
    \/ ClickRefreshData

SpecRate == InitRate /\ [][NextRate]_vars

-----------------------------------------------------------------------------
(* The dashboard over an API that answers with any list of tasks *)

FetchedIds == <<"f1", "f2", "f3", "f4", "f5", "f6", "f7", "f8">>

\* the times of creation the fetched tasks carry (new Date(created_at))
CreatedAts == {1, 2, 3}

\* the k-th task of an answer, created at the time given
FetchedTask(k, created) ==
    TaskRec(FetchedIds[k], <<"A">>, NoText, "pending", "medium", Null, Null,
            <<>>, created)

TaskAnswers ==
    UNION {{[k \in 1..n |-> FetchedTask(k, c[k])] : c \in [1..n -> CreatedAts]}
           : n \in 0..MaxFetched}

\* GET /tasks answered by an API whose collection is not enumerated
ServerReportTasks(i, tasks) ==
    /\ net[i].phase = "sent" /\ net[i].kind = "GET_tasks"
    /\ net' = Reply(i, tasks)
    /\ shown' = Nothing
    /\ UNCHANGED <<loginView, taskList, userMgmt, dashboard, sent, user, route, server>>

NextRecent ==
    \/ DashMount
    \/ \E i \in 1..Len(net) : ServerGetStats(i)
    \/ \E i \in 1..Len(net), t \in TaskAnswers : ServerReportTasks(i, t)
    \/ DashSettle
    \/ \E i \in 1..Len(net), d \in ErrDetails : DashFail(i, d)
    \/ ClickRefreshData

SpecRecent == InitRate /\ [][NextRecent]_vars

-----------------------------------------------------------------------------
(* The task list over tasks of every status and due date, as time passes *)

\* the times a render may read from the clock: up to after the last due date
Clock == 1..(Len(IsoStrings) + 1)

DueDates == {Null} \cup Range(IsoStrings)

DatedTask(id, status, due) ==
    TaskRec(id, <<"A">>, NoText, status, "medium", "u3", due, <<>>, 1)

DatedCollections ==
    {<<DatedTask("t1", s[1], d[1]), DatedTask("t2", s[2], d[2])>> :
        s \in Statuses \X Statuses, d \in DueDates \X DueDates}

\* the view renders again at a later time t
RenderAt(t) ==
    /\ route = "tasks"
    /\ t > taskList.now
    /\ taskList' = [taskList EXCEPT !.now = t]
    /\ shown' = Nothing
    /\ UNCHANGED <<loginView, userMgmt, dashboard, net, sent, user, route, server>>

InitOverdue ==
    /\ user \in SessionUsers
    /\ route = "tasks"
    /\ taskList = TaskListInit
    /\ userMgmt = UserMgmtInit
    /\ dashboard = DashboardInit
    /\ net = <<>>
    /\ sent = 0
    /\ server \in {ServerInit(seed) : seed \in DatedCollections}
    /\ shown = Nothing
    /\ loginView = LoginInit

NextOverdue ==
    \/ TLMount
    \/ \E i \in 1..Len(net) : ServerGetTasks(i)
    \/ \E i \in 1..Len(net) : ServerGetUsers(i)
    \/ \E i \in 1..Len(net) : FetchTasksSettle(i)
    \/ \E i \in 1..Len(net) : FetchUsersSettle(i)
    \/ \E i \in 1..Len(net), d \in ErrDetails : FetchTasksFail(i, d)
    \/ \E i \in 1..Len(net), d \in ErrDetails : FetchUsersFail(i, d)
    \/ \E t \in Clock : RenderAt(t)

SpecOverdue == InitOverdue /\ [][NextOverdue]_vars

-----------------------------------------------------------------------------
(* The login view *)

\* what the user types into the form
LoginInputs == {<<"email", "user@company.com">>, <<"password", "secret">>}

InitLogin ==
    /\ user \in SessionUsers \cup {NoRecord}
    /\ route = "login"
    /\ taskList = TaskListInit
    /\ userMgmt = UserMgmtInit
    /\ dashboard = DashboardInit
    /\ loginView = LoginInit
    /\ net = <<>>
    /\ sent = 0
    /\ server = ServerInit(SubSeq(SeedPool, 1, MaxSeed))
    /\ shown = Nothing

NextLogin ==
    \/ \E e \in LoginInputs : HandleChange(e[1], e[2])
    \/ ToggleShowPassword
    \/ \E role \in Roles : FillDemoCredentials(role)
    \/ HandleSubmit
    \/ \E result \in LoginResults : AuthLogin(result)
    \/ LoginSettle
    \/ LoginRedirect

SpecLogin == InitLogin /\ [][NextLogin]_vars

-----------------------------------------------------------------------------
(* The login view over a login operation that may also reject *)

NextSignIn ==
    \/ NextLogin
    \/ LoginRejects

SpecSignIn == InitLogin /\ [][NextSignIn]_vars

-----------------------------------------------------------------------------
(* The user management view over an API that answers with any list of users *)

\* users of every role, active, inactive and without the field, whose names,
\* e-mail addresses and departments differ in what a search finds in them
ListedPool ==
    << [id |-> "d1", full_name |-> <<"A", "b">>, email |-> <<"c">>,
        role |-> "admin", department |-> NoText, phone |-> NoText,
        is_active |-> TRUE],
       [id |-> "d2", full_name |-> <<"c">>, email |-> <<"a", "B">>,
        role |-> "manager", department |-> <<"c">>, phone |-> NoText,
        is_active |-> FALSE],
       [id |-> "d3", full_name |-> <<"c">>, email |-> <<"c">>,
        role |-> "employee", department |-> <<"B", "a">>, phone |-> NoText],
       [id |-> "d4", full_name |-> <<"c">>, email |-> <<"c">>,
        role |-> "employee", department |-> NoText, phone |-> NoText,
        is_active |-> FALSE],
       [id |-> "d5", full_name |-> <<"B">>, email |-> <<"c">>,
        role |-> "guest", department |-> <<>>, phone |-> NoText,
        is_active |-> TRUE],
       [id |-> "d6", full_name |-> <<"c", "a">>, email |-> <<"c">>,
        role |-> "admin", department |-> <<"c">>, phone |-> NoText] >>

\* the lists of up to MaxListed different users of the pool, in every order
UserAnswers ==
    UNION {{[k \in 1..n |-> ListedPool[p[k]]] :
               p \in {q \in [1..n -> 1..Len(ListedPool)] :
                         \A k, l \in 1..n : k # l => q[k] # q[l]}}
           : n \in 0..MaxListed}

\* GET /users answered by an API whose collection is not enumerated
ServerReportUsers(i, users) ==
    /\ net[i].phase = "sent" /\ net[i].kind = "GET_users"
    /\ net' = Reply(i, users)
    /\ shown' = Nothing
    /\ UNCHANGED <<loginView, taskList, userMgmt, dashboard, sent, user, route, server>>

ListedSearchInputs == {<<>>, <<"B">>, <<"a", "b">>}
ListedRoleInputs == {"all", "admin", "employee"}

NextListed ==
    \/ UMMount
    \/ \E i \in 1..Len(net), u \in UserAnswers : ServerReportUsers(i, u)
    \/ \E i \in 1..Len(net) : UMFetchUsersSettle(i)
    \/ \E i \in 1..Len(net), d \in ErrDetails : UMFetchUsersFail(i, d)
    \/ \E v \in ListedSearchInputs : SetUserSearchTerm(v)
    \/ \E v \in ListedRoleInputs : SetRoleFilter(v)

SpecListed == InitUsers /\ [][NextListed]_vars

-----------------------------------------------------------------------------
(* The task list view with every input of the create form *)

\* the items of the Assign To select: Unassigned and the fetched users
AssignToItems ==
    {EmptyStr} \cup {taskList.users[k].id : k \in 1..Len(taskList.users)}

\* the days the calendar offers, and NoDate for a day that is deselected
CalendarInputs == {NoDate, Len(IsoStrings)}
PriorityInputs == {"urgent"}

\* an admin session over an API that holds no task yet; the session sends
\* two requests besides those of the mount
InitDraft ==
    /\ user = Admin
    /\ route = "tasks"
    /\ taskList = TaskListInit
    /\ net = <<>>
    /\ sent = MaxRequests - 2
    /\ userMgmt = UserMgmtInit
    /\ dashboard = DashboardInit
    /\ server = ServerInit(<<>>)
    /\ shown = Nothing
    /\ loginView = LoginInit

NextDraft ==
    \/ TLMount
    \/ \E i \in 1..Len(net) : ServerGetTasks(i)
    \/ \E i \in 1..Len(net) : ServerGetUsers(i)
    \/ \E i \in 1..Len(net) : ServerPostTask(i)
    \/ \E i \in 1..Len(net) : FetchTasksSettle(i)
    \/ \E i \in 1..Len(net) : FetchUsersSettle(i)
    \/ \E i \in 1..Len(net) : CreateTaskSettle(i)
    \/ \E i \in 1..Len(net), d \in ErrDetails : CreateTaskFail(i, d)
    \/ ClickCreateTask
    \/ ClickCreateFirstTask
    \/ CloseCreateDialog
    \/ \E e \in DraftInputs : SetNewTask(e[1], e[2])
    \/ \E v \in PriorityInputs : SetNewTask("priority", v)
    \/ \E v \in AssignToItems : SetNewTask("assigned_to", v)
    \/ \E v \in CalendarInputs : SetNewTask("due_date", v)
    \/ HandleCreateTask

SpecDraft == InitDraft /\ [][NextDraft]_vars

-----------------------------------------------------------------------------
(* The three views and their initial fetches, every request settling *)

\* the mount effects: React runs the effect of a view once it is rendered
Mounts == TLMount \/ UMMount \/ DashMount

\* a request in flight is answered or fails, and the event loop runs the
\* continuation of the handler that awaits it
Settlements ==
    \/ \E i \in 1..Len(net) : ServerGetTasks(i)
    \/ \E i \in 1..Len(net) : ServerGetUsers(i)
    \/ \E i \in 1..Len(net) : ServerGetStats(i)
    \/ \E i \in 1..Len(net) : FetchTasksSettle(i)
    \/ \E i \in 1..Len(net) : FetchUsersSettle(i)
    \/ \E i \in 1..Len(net), d \in ErrDetails : FetchTasksFail(i, d)
    \/ \E i \in 1..Len(net), d \in ErrDetails : FetchUsersFail(i, d)
    \/ DashSettle
    \/ \E i \in 1..Len(net), d \in ErrDetails : DashFail(i, d)
    \/ \E i \in 1..Len(net) : UMFetchUsersSettle(i)
    \/ \E i \in 1..Len(net), d \in ErrDetails : UMFetchUsersFail(i, d)

\* the quick actions lead from the dashboard to the other views and back to
\* a dashboard that is loaded anew; the filters are used once a view shows
NextSettling ==
    \/ Mounts
    \/ Settlements
    \/ ClickViewAllTasks
    \/ ClickManageUsers
    \/ ClickRefreshData
    \/ \E v \in SearchInputs : SetSearchTerm(v)
    \/ \E v \in StatusFilterInputs : SetStatusFilter(v)
    \/ \E v \in UserSearchInputs : SetUserSearchTerm(v)
    \/ \E v \in RoleFilterInputs : SetRoleFilter(v)

\* every request that is issued settles, and an effect that is due is run
SpecSettling ==
    InitShell /\ [][NextSettling]_vars /\ WF_vars(Mounts) /\ WF_vars(Settlements)

-----------------------------------------------------------------------------
(* The task list view over an API on which every request succeeds *)

NextRace ==
    \/ TLMount
    \/ \E i \in 1..Len(net) : ServerGetTasks(i)
    \/ \E i \in 1..Len(net) : ServerGetUsers(i)
    \/ \E i \in 1..Len(net) : ServerPostTask(i)
    \/ \E i \in 1..Len(net) : ServerPutTask(i)
    \/ \E i \in 1..Len(net) : ServerDeleteTask(i)
    \/ \E i \in 1..Len(net) : FetchTasksSettle(i)
    \/ \E i \in 1..Len(net) : FetchUsersSettle(i)
    \/ \E i \in 1..Len(net) : CreateTaskSettle(i)
    \/ \E i \in 1..Len(net) : UpdateTaskSettle(i)
    \/ \E i \in 1..Len(net) : DeleteTaskSettle(i)
    \/ ClickCreateTask
    \/ ClickCreateFirstTask
    \/ \E e \in DraftInputs : SetNewTask(e[1], e[2])
    \/ HandleCreateTask
    \/ \E k \in 1..Len(filteredTasks) : ClickStart(k)
    \/ \E k \in 1..Len(filteredTasks) : ClickComplete(k)
    \/ \E k \in 1..Len(filteredTasks), c \in BOOLEAN : ClickDelete(k, c)

SpecRace == Init /\ [][NextRace]_vars

-----------------------------------------------------------------------------
(* The task list view and the user management view with all their forms *)

\* the admin uses every form; the employee starts and completes tasks
InitForms ==
    /\ user \in {Admin, Employee}
    /\ route \in {"tasks", "users"}
    /\ taskList = TaskListInit
    /\ userMgmt = UserMgmtInit
    /\ dashboard = DashboardInit
    /\ net = <<>>
    /\ sent = 0
    /\ server = ServerInit(SubSeq(SeedPool, 1, MaxSeed))
    /\ shown = Nothing
    /\ loginView = LoginInit

NextForms == Next \/ NextUsers

SpecForms == InitForms /\ [][NextForms]_vars

-----------------------------------------------------------------------------
(* Requests in flight, by kind *)

InFlight(kind) == {i \in 1..Len(net) : net[i].kind = kind}

Count(n, kind) == Cardinality({i \in 1..Len(n) : n[i].kind = kind})

\* the versions of task id in the array a request's handler captured
Captured(i) == {t \in Range(net[i].snap) : t.id = net[i].id}


-----------------------------------------------------------------------------
(* Claims about the task list view *)

\* C1: a delete whose confirmation prompt is declined sends no request and
\* leaves the task list (and the rest of the view) as it was, and a step that
\* puts a DELETE /tasks/{id} on the network is one whose prompt was confirmed.
C1_DeleteOnlyAfterConfirm ==
    [][ /\ shown'.confirm = "no" =>
             /\ net' = net
             /\ taskList' = taskList
             /\ server' = server
        /\ Count(net', "DELETE_task") > Count(net, "DELETE_task") =>
             shown'.confirm = "yes" ]_vars

\* a delete was declined on a card of a non-empty list, nothing in flight
C1_Witness ==
    /\ shown.confirm = "no"
    /\ taskList.tasks # <<>>
    /\ InFlight("DELETE_task") = {}

\* C3: in an employee session neither Create Task button and no Delete item is
\* on screen, the create dialog is never open and no POST /tasks or
\* DELETE /tasks/{id} is in flight; a Create Task button on screen means the
\* role is admin or manager.
C3_EmployeeNeverCreatesOrDeletes ==
    /\ UserRole(user) = "employee" =>
          /\ ~HeaderCreateRendered
          /\ ~EmptyCreateRendered
          /\ ~CreateDialogOpen
          /\ \A k \in 1..Len(filteredTasks) : ~ShowsDeleteItem(user, filteredTasks[k])
          /\ InFlight("POST_task") = {}
          /\ InFlight("DELETE_task") = {}
    /\ (HeaderCreateRendered \/ EmptyCreateRendered \/ InFlight("POST_task") # {})
          => UserRole(user) \in {"admin", "manager"}

\* an employee looks at a card whose menu is shown to them
C3_Witness ==
    /\ UserRole(user) = "employee"
    /\ CardsUsable
    /\ \E k \in 1..Len(filteredTasks) : ShowsTaskMenu(user, filteredTasks[k])

\* C8: Start and Complete are on screen only on cards of tasks assigned to the
\* current user, and every status update in flight is for a task that was
\* assigned to the current user in the list its handler was created in.
C8_QuickUpdateOnlyForAssignee ==
    /\ TaskListRendered =>
          \A k \in 1..Len(filteredTasks) :
              (ShowsStart(user, filteredTasks[k]) \/ ShowsComplete(user, filteredTasks[k]))
                  => filteredTasks[k].assigned_to = UserId(user)
    /\ \A i \in InFlight("PUT_task") :
          /\ Captured(i) # {}
          /\ \A t \in Captured(i) : t.assigned_to = UserId(user)

\* an admin or manager looks at a pending task of somebody else and could
\* still send a request
C8_Witness ==
    /\ UserRole(user) \in {"admin", "manager"}
    /\ CardsUsable /\ CanSend
    /\ \E k \in 1..Len(filteredTasks) :
          /\ filteredTasks[k].status = "pending"
          /\ filteredTasks[k].assigned_to # UserId(user)

Succeeds(i, kind, text) ==
    /\ i \in InFlight(kind)
    /\ net[i].phase = "ok"
    /\ net' = RemoveAt(net, i)
    /\ shown'.toasts = <<Toast("success", text)>>

\* C6: when a create request succeeds the local list becomes the returned
\* task followed by the list as it was just before, so it grows by one.
C6_CreatePrepends ==
    [][ \A i \in 1..Len(net) :
          Succeeds(i, "POST_task", "Task created successfully!") =>
              /\ taskList'.tasks = <<net[i].data>> \o taskList.tasks
              /\ Len(taskList'.tasks) = Len(taskList.tasks) + 1 ]_vars

\* C7: when an update request for id X succeeds the local list becomes the
\* list as it was just before with the elements of id X replaced by the
\* returned task; length and order are kept.
C7_UpdateMergesById ==
    [][ \A i \in 1..Len(net) :
          Succeeds(i, "PUT_task", "Task updated successfully!") =>
              taskList'.tasks =
                  MapSeq(taskList.tasks,
                         LAMBDA t : IF t.id = net[i].id THEN net[i].data ELSE t) ]_vars

-----------------------------------------------------------------------------
(* Claims about the filters of the task list view *)

ToUpper(c) ==
    CASE c = "a" -> "A"
      [] c = "b" -> "B"
      [] OTHER -> c

\* the two texts are the same up to the case of their letters
SameIgnoringCase(s, t) ==
    Len(s) = Len(t) /\ \A i \in 1..Len(s) : ToUpper(s[i]) = ToUpper(t[i])

\* term occurs in text when case is ignored: text = before term' after
OccursIn(term, text) ==
    \E a \in 0..Len(text), b \in 0..Len(text) :
        /\ a + Len(term) = b
        /\ SameIgnoringCase(term, SubSeq(text, a + 1, b))

\* the three predicates of the claim, on one task
SearchSays(t) ==
    \/ OccursIn(taskList.searchTerm, t.title)
    \/ t.description # NoText /\ OccursIn(taskList.searchTerm, t.description)

StatusSays(t) == taskList.statusFilter = "all" \/ t.status = taskList.statusFilter

PrioritySays(t) ==
    taskList.priorityFilter = "all" \/ t.priority = taskList.priorityFilter

\* C2: the visible list is the local tasks, in their order, that satisfy the
\* conjunction of the search, status and priority predicates; a filter set to
\* 'all' filters nothing, and with an empty search and both filters 'all'
\* every task is visible.
C2_VisibleIsConjunction ==
    TaskListRendered =>
        /\ filteredTasks = SelectSeq(taskList.tasks,
               LAMBDA t : SearchSays(t) /\ StatusSays(t) /\ PrioritySays(t))
        /\ taskList.statusFilter = "all" =>
               filteredTasks = SelectSeq(taskList.tasks,
                   LAMBDA t : SearchSays(t) /\ PrioritySays(t))
        /\ taskList.priorityFilter = "all" =>
               filteredTasks = SelectSeq(taskList.tasks,
                   LAMBDA t : SearchSays(t) /\ StatusSays(t))
        /\ ( /\ taskList.searchTerm = <<>>
             /\ taskList.statusFilter = "all"
             /\ taskList.priorityFilter = "all" ) => filteredTasks = taskList.tasks

\* a search in capitals that only a description answers, with both other
\* filters set: some tasks are visible and some are hidden
C2_Witness ==
    /\ TaskListRendered
    /\ taskList.searchTerm = <<"A", "b">>
    /\ taskList.statusFilter = "in_progress"
    /\ taskList.priorityFilter = "medium"
    /\ Len(filteredTasks) = 1
    /\ Len(taskList.tasks) > 1
    /\ ~Includes(ToLowerCase(filteredTasks[1].title), <<"a", "b">>)

-----------------------------------------------------------------------------
(* Claims about navigation, the dashboard and the user management view *)

NavLabels == MapSeq(filteredNavItems, LAMBDA item : item.label)

\* C4: an employee session renders no Add User button, no Manage Users quick
\* action, no Total Employees tile and no User Management link; the
\* navigation shows Dashboard and Tasks to an employee, those and User
\* Management to an admin or manager, and nothing when the role is absent or
\* outside the vocabulary.
C4_EmployeeSeesNoUserAdministration ==
    /\ UserRole(user) = "employee" =>
          /\ ~AddUserRendered /\ ~EmptyAddUserRendered
          /\ ~ENABLED ClickAddUser /\ ~ENABLED ClickAddFirstUser
          /\ ~userMgmt.showCreateDialog
          /\ ~ManageUsersRendered /\ ~ENABLED ClickManageUsers
          /\ ~TotalEmployeesRendered
          /\ "User Management" \notin Range(NavLabels)
          /\ \A k \in 1..Len(filteredNavItems) : filteredNavItems[k].to # "users"
    /\ NavLabels = CASE UserRole(user) = "employee" -> <<"Dashboard", "Tasks">>
                     [] UserRole(user) \in {"admin", "manager"} ->
                            <<"Dashboard", "Tasks", "User Management">>
                     [] OTHER -> <<>>

\* an employee looks at the loaded dashboard
C4_Witness ==
    /\ UserRole(user) = "employee"
    /\ DashboardRendered
    /\ dashboard.stats # NoRecord

\* C5: Edit User is offered on a card exactly when the current user is an
\* admin and the card is not their own; no PUT /users/{id} is in flight for
\* the current user's id or in a manager or employee session; Add User is
\* offered to an admin only, and so is the registration request.
C5_UserEditingIsAdminOnly ==
    /\ UserCardsUsable =>
          \A k \in 1..Len(filteredUsers) :
              ENABLED ClickEditUser(k) <=>
                  /\ UserRole(user) = "admin"
                  /\ filteredUsers[k].id # user.id
    /\ userMgmt.editingUser # NoRecord =>
          UserRole(user) = "admin" /\ userMgmt.editingUser.id # user.id
    /\ \A i \in InFlight("PUT_user") :
          UserRole(user) = "admin" /\ net[i].id # user.id
    /\ (ENABLED ClickAddUser \/ ENABLED ClickAddFirstUser \/ ENABLED HandleCreateUser)
          => UserRole(user) = "admin"
    /\ (UserCardsUsable /\ UserRole(user) = "admin") => ENABLED ClickAddUser
    /\ InFlight("POST_register") # {} => UserRole(user) = "admin"

\* an admin has sent an update for another user while their own card is listed
C5_Witness ==
    /\ UserRole(user) = "admin"
    /\ InFlight("PUT_user") # {}
    /\ \E u \in Range(userMgmt.users) : u.id = user.id

-----------------------------------------------------------------------------
(* Claims about the Edit item of the task list view *)

\* an update request that carries more than a status
FullEditInFlight ==
    \E i \in InFlight("PUT_task") : DOMAIN net[i].body # {"status"}

\* every update request of the task list view carries a status and no more
UpdatesCarryOnlyStatus == ~FullEditInFlight

\* C10: once Edit is chosen on a task, an update request that carries the
\* task's edited fields, not just a status, comes to be issued.
C10_EditLeadsToFullUpdate ==
    (taskList.editingTask # NoRecord) ~> FullEditInFlight


-----------------------------------------------------------------------------
(* Claims about the dashboard *)

\* 100 * completed / total rounded to the nearest integer, a half going up
RoundHalfUp(completed, total) == (200 * completed + total) \div (2 * total)

\* C11: the completion percentage the dashboard displays is
\* round(100 * completed_tasks / total_tasks), a half rounded up, when
\* total_tasks > 0, and 0 when total_tasks is 0 or the stats are absent; it is
\* an integer in 0..100.
C11_RateIsRoundedShare ==
    DashboardRendered =>
        /\ completionRate \in 0..100
        /\ completionRate =
             IF dashboard.stats # NoRecord /\ dashboard.stats.total_tasks > 0
             THEN RoundHalfUp(dashboard.stats.completed_tasks,
                              dashboard.stats.total_tasks)
             ELSE 0


\* the tasks of s whose id is not among those of kept
LeftOut(s, kept) ==
    {t \in Range(s) : \A k \in 1..Len(kept) : kept[k].id # t.id}

\* recent is what the claim says of the tasks fetched
NewestFive(fetched, recent) ==
    /\ Len(recent) = (IF Len(fetched) < 5 THEN Len(fetched) ELSE 5)
    /\ Range(recent) \subseteq Range(fetched)
    /\ \A k, l \in 1..Len(recent) : k # l => recent[k].id # recent[l].id
    /\ \A k \in 1..(Len(recent) - 1) :
         recent[k].created_at >= recent[k + 1].created_at
    /\ \A t \in LeftOut(fetched, recent) : \A k \in 1..Len(recent) :
         t.created_at <= recent[k].created_at

Unsettled == {i \in DashRequests : net[i].phase = "sent"}

\* C14: the dashboard sends the stats request and the task-list request
\* together, and it leaves its loading state only once both have settled:
\* in the step that ends loading no request is still waiting, but for the one
\* whose failure this very step handles.
C14_LoadingEndsWhenBothSettled ==
    [][/\ (~dashboard.mounted /\ dashboard'.mounted
            => /\ Cardinality(DashRequests') = 2
               /\ \E i, j \in DashRequests' :
                    /\ net'[i].kind = "GET_stats" /\ net'[i].phase = "sent"
                    /\ net'[j].kind = "GET_tasks" /\ net'[j].phase = "sent")
       /\ (dashboard.loading /\ ~dashboard'.loading
            => \/ Unsettled = {}
               \/ /\ Cardinality(Unsettled) = 1
                  /\ shown'.toasts # <<>>)]_vars

\* the counters the dashboard displays: stats?.<field> || 0
StatsFields ==
    {"total_employees", "total_tasks", "completed_tasks", "overdue_tasks",
     "pending_tasks", "in_progress_tasks"}

\* C15: when a dashboard request fails, the other having succeeded, failed or
\* not answered yet, the step shows exactly one error notification, stats
\* stays null, the recent-tasks list stays empty, every displayed counter and
\* the completion percentage are 0, and nothing is sent again: requests of the
\* dashboard appear only in the step that mounts it.
C15_FailureShowsOneErrorAndZeros ==
    [][/\ (dashboard.loading /\ ~dashboard'.loading /\ Unsettled # {}
            => /\ Len(shown'.toasts) = 1
               /\ shown'.toasts[1].kind = "error"
               /\ dashboard'.stats = NoRecord
               /\ dashboard'.recentTasks = <<>>
               /\ \A f \in StatsFields : Counter(dashboard'.stats, f) = 0
               /\ CompletionRate(dashboard'.stats) = 0
               /\ DashRequests' = {}
               /\ sent' = sent)
       /\ (DashRequests' # {} /\ dashboard.mounted
            => /\ Cardinality(DashRequests') <= Cardinality(DashRequests)
               /\ Cardinality({i \in DashRequests' : net'[i].phase = "sent"})
                    <= Cardinality(Unsettled))]_vars

\* the dashboard is rendered after a failed load: one error notification, no
\* stats, no recent tasks, all counters 0
C15_Witness ==
    /\ DashboardRendered
    /\ shown.toasts = <<Toast("error", "Failed to load dashboard data")>>
    /\ dashboard.stats = NoRecord
    /\ dashboard.recentTasks = <<>>
    /\ completionRate = 0
    /\ DashRequests = {}

-----------------------------------------------------------------------------
(* Claims about failed requests *)

\* the requests a view still waits for that this step ends without an answer
FailedNow ==
    {i \in 1..Len(net) :
        /\ net[i].phase = "sent" /\ net[i].live
        /\ route' = route
        /\ \/ net' = RemoveAt(net, i)
           \/ i \in DashRequests /\ net' = WithoutDashRequests}

\* C16: every failed request of a view (a fetch of tasks, users or dashboard
\* data, a create, an update, a delete) results in exactly one error
\* notification: the step that handles the failure shows one error toast.
C16_EveryFailureShowsOneError ==
    [][FailedNow # {} => /\ Len(shown'.toasts) = 1
                         /\ shown'.toasts[1].kind = "error"]_vars

\* the step handles the failure of the request at position i, whose error
\* payload carries detail (Null: it carries none)
FailsWith(i, detail) ==
    \/ FetchTasksFail(i, detail)
    \/ FetchUsersFail(i, detail)
    \/ CreateTaskFail(i, detail)
    \/ UpdateTaskFail(i, detail)
    \/ DeleteTaskFail(i, detail)
    \/ UMFetchUsersFail(i, detail)
    \/ CreateUserFail(i, detail)
    \/ UpdateUserFail(i, detail)
    \/ DashFail(i, detail)

\* the messages that name the operation only
GenericTexts ==
    {"Failed to load tasks", "Failed to create task", "Failed to update task",
     "Failed to delete task", "Failed to load users", "Failed to create user",
     "Failed to update user", "Failed to load dashboard data"}

\* C17: the text of the error notification of a failed request is the detail
\* of the API's error payload when the payload carries one, and a generic
\* message otherwise.
C17_ErrorTextIsDetailOrGeneric ==
    [][\A i \in 1..Len(net), detail \in ErrDetails :
         FailsWith(i, detail)
         => \A k \in 1..Len(shown'.toasts) :
              IF detail # Null THEN shown'.toasts[k].text = detail
              ELSE shown'.toasts[k].text \in GenericTexts]_vars

\* the requests of the kind given that the view owner waits for
Waiting(n, owner, kind) ==
    {i \in 1..Len(n) : n[i].owner = owner /\ n[i].kind = kind /\ n[i].live}

\* C18: a failed fetch of tasks in the task list view, or of users in the
\* user management view, leaves the collection the view holds as it was,
\* sets loading to false and is not retried: the view sends the fetch in the
\* step that mounts it and in no other.
C18_FailedFetchKeepsCollection ==
    [][/\ \A i \in FailedNow :
            /\ (net[i].owner = "TaskList" /\ net[i].kind = "GET_tasks"
                 => /\ taskList'.tasks = taskList.tasks
                    /\ ~taskList'.loading
                    /\ Waiting(net', "TaskList", "GET_tasks") = {})
            /\ (net[i].owner = "UserManagement" /\ net[i].kind = "GET_users"
                 => /\ userMgmt'.users = userMgmt.users
                    /\ ~userMgmt'.loading
                    /\ Waiting(net', "UserManagement", "GET_users") = {})
       /\ (Waiting(net', "TaskList", "GET_tasks") # {} /\ taskList.mounted
            /\ route' = route
            => Cardinality(Waiting(net', "TaskList", "GET_tasks"))
                 <= Cardinality(Waiting(net, "TaskList", "GET_tasks")))
       /\ (Waiting(net', "UserManagement", "GET_users") # {} /\ userMgmt.mounted
            /\ route' = route
            => Cardinality(Waiting(net', "UserManagement", "GET_users"))
                 <= Cardinality(Waiting(net, "UserManagement", "GET_users")))]_vars

\* the task list is rendered after its fetch of tasks failed
C18_Witness ==
    /\ TaskListRendered
    /\ shown.toasts = <<Toast("error", "Failed to load tasks")>>
    /\ taskList.tasks = <<>>
    /\ Waiting(net, "TaskList", "GET_tasks") = {}

-----------------------------------------------------------------------------
(* Claims about the login view *)

\* C19: a submission clears the previous error and sets loading; when login
\* returns failure the message it returned becomes the displayed error, when
\* it returns success the error is empty, and either way loading is false
\* once the attempt has finished; with a current user present the login view
\* renders no form (nothing is typed or submitted) and the only place it
\* leads to is the dashboard.
C19_LoginAttempt ==
    [][/\ (loginView.awaiting = NoRecord /\ loginView'.awaiting # NoRecord
            => /\ loginView'.loading
               /\ loginView'.error = EmptyStr)
       /\ (loginView.awaiting # NoRecord /\ loginView'.awaiting = NoRecord
            => /\ ~loginView'.loading
               /\ loginView'.error =
                    IF loginView.awaiting.result.success THEN EmptyStr
                    ELSE loginView.awaiting.result.error)
       /\ (route = "login" /\ user # NoRecord
            => /\ ~LoginFormRendered
               /\ route' \in {"login", "dashboard"}
               /\ (route' = "login"
                   => /\ loginView'.formData = loginView.formData
                      /\ loginView'.showPassword = loginView.showPassword
                      /\ (loginView'.awaiting # NoRecord
                          => loginView.awaiting # NoRecord)))]_vars

\* a second attempt has failed: its message is displayed, loading is over
C19_Witness ==
    /\ LoginFormRendered
    /\ loginView.awaiting = NoRecord
    /\ ~loginView.loading
    /\ loginView.error = "Login failed"
    /\ shown.toasts = <<Toast("error", "Login failed")>>

-----------------------------------------------------------------------------
(* Claims about the assignee names *)

\* C20: the task list sends GET /users when it is activated if and only if
\* the current role is not employee, and at no other time; in an employee
\* session its users collection stays empty, and the assignee name on every
\* card of an assigned task is 'Unassigned'.
C20_EmployeeSeesUnassigned ==
    [][/\ (~taskList.mounted /\ taskList'.mounted
            => (Waiting(net', "TaskList", "GET_users") # {}
                <=> UserRole(user) # "employee"))
       /\ (taskList.mounted /\ taskList'.mounted
            => Cardinality(Waiting(net', "TaskList", "GET_users"))
                 <= Cardinality(Waiting(net, "TaskList", "GET_users")))
       /\ (route = "tasks" /\ UserRole(user) = "employee"
            => /\ taskList.users = <<>>
               /\ TaskListRendered
                  => \A k \in 1..Len(filteredTasks) :
                       ShowsAssignee(filteredTasks[k])
                       => GetUserName(filteredTasks[k].assigned_to) = Unassigned)]_vars

\* an employee's task list shows a card of a task assigned to a user the
\* API knows, named 'Unassigned'
C20_Witness ==
    /\ TaskListRendered
    /\ UserRole(user) = "employee"
    /\ \E k \in 1..Len(filteredTasks) :
         /\ ShowsAssignee(filteredTasks[k])
         /\ HasUser(filteredTasks[k].assigned_to)
         /\ GetUserName(filteredTasks[k].assigned_to) = Unassigned

-----------------------------------------------------------------------------
(* Claims about the overdue label *)

-----------------------------------------------------------------------------
(* Claims about the summary and the filters of the user management view *)

\* the positions of the users of s whose role is the one given
WithRole(s, role) == {k \in 1..Len(s) : s[k].role = role}

\* C21: the summary counts are taken over the whole fetched collection,
\* whatever the search term and the role filter: total is its size, each
\* per-role count the number of users of that role, active the number of
\* users whose is_active is not false (absent or true); when every role is
\* admin, manager or employee the three counts add up to total, and active
\* is at most total.
C21_SummaryCountsAllUsers ==
    UserMgmtRendered =>
        LET users == userMgmt.users
        IN /\ userStats.total = Len(users)
           /\ userStats.admins = Cardinality(WithRole(users, "admin"))
           /\ userStats.managers = Cardinality(WithRole(users, "manager"))
           /\ userStats.employees = Cardinality(WithRole(users, "employee"))
           /\ userStats.active =
                Len(users) - Cardinality({k \in 1..Len(users) :
                                            /\ "is_active" \in DOMAIN users[k]
                                            /\ users[k].is_active = FALSE})
           /\ userStats.active <= userStats.total
           /\ (\A k \in 1..Len(users) : users[k].role \in Roles)
              => userStats.total = userStats.admins + userStats.managers
                                   + userStats.employees

\* three users are listed, one inactive and one without is_active, and the
\* filters hide two of them: the summary still counts three, two active
C21_Witness ==
    /\ UserMgmtRendered
    /\ Len(userMgmt.users) = 3
    /\ Len(filteredUsers) = 1
    /\ userMgmt.searchTerm # <<>>
    /\ userMgmt.roleFilter # "all"
    /\ \E k \in 1..3 : "is_active" \notin DOMAIN userMgmt.users[k]
    /\ \E k \in 1..3 : /\ "is_active" \in DOMAIN userMgmt.users[k]
                         /\ userMgmt.users[k].is_active = FALSE
    /\ \A k \in 1..3 : userMgmt.users[k].role \in Roles
    /\ userStats.total = 3
    /\ userStats.active = 2


\* the search term occurs, case ignored, in the name, the e-mail address or
\* the department of the user; a user without department has none to look in
UserSearchSays(u) ==
    \/ OccursIn(userMgmt.searchTerm, u.full_name)
    \/ OccursIn(userMgmt.searchTerm, u.email)
    \/ u.department # NoText /\ OccursIn(userMgmt.searchTerm, u.department)

RoleSays(u) == userMgmt.roleFilter = "all" \/ u.role = userMgmt.roleFilter

\* the positions in the collection of the users the claim makes visible
VisiblePositions ==
    {k \in 1..Len(userMgmt.users) :
        UserSearchSays(userMgmt.users[k]) /\ RoleSays(userMgmt.users[k])}

\* C22: the visible user list holds exactly the local users in whose
\* full_name, email or department the search term occurs case-insensitively
\* (an absent department never matches) and whose role is the role filter,
\* 'all' filtering nothing; the users keep the order of the collection.
C22_VisibleUsersAreTheMatches ==
    UserMgmtRendered =>
        /\ Len(filteredUsers) = Cardinality(VisiblePositions)
        /\ \A k \in VisiblePositions :
              filteredUsers[Cardinality({l \in VisiblePositions : l <= k})]
                  = userMgmt.users[k]
        /\ userMgmt.roleFilter = "all" =>
              \A k \in 1..Len(userMgmt.users) :
                  UserSearchSays(userMgmt.users[k])
                      => \E j \in 1..Len(filteredUsers) :
                             filteredUsers[j] = userMgmt.users[k]

\* a search in capitals under the role filter employee, over three users:
\* one found by the department alone, an employee without department who is
\* hidden, and a user found by the e-mail address but hidden by the role
C22_Witness ==
    /\ UserMgmtRendered
    /\ userMgmt.searchTerm = <<"B">>
    /\ userMgmt.roleFilter = "employee"
    /\ Len(userMgmt.users) = 3
    /\ Len(filteredUsers) = 1
    /\ ~OccursIn(<<"B">>, filteredUsers[1].full_name)
    /\ ~OccursIn(<<"B">>, filteredUsers[1].email)
    /\ \E k \in 1..3 : /\ userMgmt.users[k].role = "employee"
                         /\ userMgmt.users[k].department = NoText
    /\ \E k \in 1..3 : /\ userMgmt.users[k].role # "employee"
                         /\ OccursIn(<<"B">>, userMgmt.users[k].email)

-----------------------------------------------------------------------------
(* Claims about the body of POST /tasks *)

\* the step sends a POST /tasks: the request is the last one in flight
SendsCreate ==
    /\ Len(net') = Len(net) + 1
    /\ net'[Len(net')].kind = "POST_task"

IsoTexts == {IsoStrings[d] : d \in 1..Len(IsoStrings)}

\* C23: every POST /tasks body built from the draft carries assigned_to as a
\* non-empty user id or null, never the empty string, and due_date as an
\* ISO-8601 string or null; a draft of which only the title was edited is
\* posted with priority 'medium'.
C23_CreateBodyIsNormalised ==
    [][SendsCreate =>
        LET body == net'[Len(net')].body
            draft == taskList.newTask
        IN /\ body.assigned_to # EmptyStr
           /\ body.assigned_to = Null <=> draft.assigned_to = EmptyStr
           /\ body.assigned_to # Null => body.assigned_to = draft.assigned_to
           /\ body.due_date \in IsoTexts \cup {Null}
           /\ body.due_date = Null <=> draft.due_date = NoDate
           /\ body.title = draft.title
           /\ draft = [NewTaskDefault EXCEPT !.title = draft.title]
                => /\ body.priority = "medium"
                   /\ body.assigned_to = Null
                   /\ body.due_date = Null]_vars

\* two bodies in flight: one of a draft that has the defaults besides its
\* title, and one of a draft with a user and a day selected
C23_Witness ==
    /\ Len(net) = 2
    /\ net[1].kind = "POST_task" /\ net[2].kind = "POST_task"
    /\ \E i, j \in 1..2 :
          /\ net[i].body.assigned_to = Null
          /\ net[i].body.due_date = Null
          /\ net[i].body.priority = "medium"
          /\ net[j].body.assigned_to = "u3"
          /\ net[j].body.due_date = IsoStrings[2]

-----------------------------------------------------------------------------
(* Claims about the loading state of the views *)

\* the request of the view's initial fetch has been sent and has not settled
FetchPending(owner, kind) ==
    \E i \in 1..Len(net) :
        net[i].owner = owner /\ net[i].kind = kind /\ net[i].live

\* the view at the current path shows its loading state
ViewLoading ==
    \/ route = "tasks" /\ taskList.loading
    \/ route = "users" /\ userMgmt.loading
    \/ route = "dashboard" /\ dashboard.loading

\* a view that has left its loading state and is not constructed anew by
\* the step is not loading after it
StaysLoaded ==
    /\ (taskList.mounted /\ ~taskList.loading /\ taskList'.mounted)
         => ~taskList'.loading
    /\ (userMgmt.mounted /\ ~userMgmt.loading /\ userMgmt'.mounted)
         => ~userMgmt'.loading
    /\ (dashboard.mounted /\ ~dashboard.loading /\ dashboard'.mounted)
         => ~dashboard'.loading

\* C24: in the dashboard, the task list and the user management view loading
\* is true from construction until the view's initial fetch settles, by
\* success or by failure, and is false from then on; when every request
\* settles every view leaves its loading state, and as long as the initial
\* fetch has not settled the view is loading: nothing else ends it.
C24_LoadingEndsWithTheInitialFetch ==
    /\ [](taskList.loading <=>
             (~taskList.mounted \/ FetchPending("TaskList", "GET_tasks")))
    /\ [](userMgmt.loading <=>
             (~userMgmt.mounted \/ FetchPending("UserManagement", "GET_users")))
    /\ [](dashboard.loading <=> (~dashboard.mounted \/ DashRequests # {}))
    /\ [][StaysLoaded]_vars
    /\ (ViewLoading ~> ~ViewLoading)

\* the task list has left its loading state through a failed fetchTasks
\* while the users it asked for at the same time are still awaited
C24_Witness ==
    /\ route = "tasks"
    /\ taskList.mounted
    /\ ~taskList.loading
    /\ taskList.tasks = <<>>
    /\ Len(server.tasks) > 0
    /\ FetchPending("TaskList", "GET_users")

-----------------------------------------------------------------------------
(* Claims about task mutations that are in flight together *)

\* the tasks of a list, whatever their order
TasksIn(s) == {s[k] : k \in 1..Len(s)}

TaskIdsIn(s) == {s[k].id : k \in 1..Len(s)}

\* C25: when several creates, updates and deletes are in flight together and
\* all succeed, then once the last one has completed the local list reflects
\* every one of them, in whatever order they completed: it holds the tasks
\* the API holds, none is lost to a list derived from an older snapshot.
C25_NoMutationIsLost ==
    (TaskListRendered /\ Mutations(net) = {})
        => TasksIn(taskList.tasks) = TasksIn(server.tasks)

\* C26: a task whose delete has succeeded and that has left the local list
\* does not come back into it, unless a fetch returns it; the completion of
\* an update or a create issued before the delete completed does not bring
\* it back.
C26_DeletedTaskStaysAway ==
    [][ \A id \in TaskIdsIn(taskList'.tasks) :
          ( /\ TaskListRendered
            /\ id \notin TaskIdsIn(taskList.tasks)
            /\ id \notin TaskIdsIn(server.tasks) )
          => \E i \in InFlight("GET_tasks") : net' = RemoveAt(net, i) ]_vars


\* C27: the API returns collections of pairwise distinct ids and gives every
\* created task a fresh id; the local task list then never holds two tasks
\* of the same id, whatever the sequence and interleaving of the completions
\* of fetches, creates, updates and deletes.
C27_LocalIdsAreDistinct ==
    \A k, l \in 1..Len(taskList.tasks) :
        taskList.tasks[k].id = taskList.tasks[l].id => k = l

\* a created task heads a list of several tasks that is no longer the
\* collection of the API, while another mutation is still in flight
C27_Witness ==
    /\ TaskListRendered
    /\ Len(taskList.tasks) >= 2
    /\ taskList.tasks[1].id = NewTaskIds[1]
    /\ TasksIn(taskList.tasks) # TasksIn(server.tasks)
    /\ Mutations(net) # {}
    /\ \A k, l \in 1..Len(server.tasks) :
          server.tasks[k].id = server.tasks[l].id => k = l

-----------------------------------------------------------------------------
(* Claims about the forms after a failed or a successful request *)

MutationKinds == {"POST_task", "PUT_task", "DELETE_task", "POST_register", "PUT_user"}

\* the step leaves the create dialog of the task list, and its draft, alone
CreateTaskFormKept ==
    /\ taskList'.showCreateDialog = taskList.showCreateDialog
    /\ taskList'.newTask = taskList.newTask

\* the step leaves the Add User dialog, and its draft, alone
CreateUserFormKept ==
    /\ userMgmt'.showCreateDialog = userMgmt.showCreateDialog
    /\ userMgmt'.newUser = userMgmt.newUser

\* the step leaves the edit dialog, and the user it edits, alone
EditUserFormKept ==
    /\ userMgmt'.showEditDialog = userMgmt.showEditDialog
    /\ userMgmt'.editingUser = userMgmt.editingUser

\* what the claim says of a step that handles the failure of request i
AfterFailure(i) ==
    /\ taskList'.tasks = taskList.tasks
    /\ userMgmt'.users = userMgmt.users
    /\ net[i].kind = "POST_task" => CreateTaskFormKept
    /\ net[i].kind = "POST_register" => CreateUserFormKept
    /\ net[i].kind = "PUT_user" => EditUserFormKept

\* what the claim says of a step that is the success continuation of i
AfterSuccess(i) ==
    /\ Succeeds(i, "POST_task", "Task created successfully!")
         => ~taskList'.showCreateDialog /\ taskList'.newTask = NewTaskDefault
    /\ Succeeds(i, "POST_register", "User created successfully!")
         => ~userMgmt'.showCreateDialog /\ userMgmt'.newUser = NewUserDefault
    /\ Succeeds(i, "PUT_user", "User updated successfully!")
         => ~userMgmt'.showEditDialog /\ userMgmt'.editingUser = NoRecord

\* C28: a failed create, update or delete of a task or a user leaves the
\* local collection as it is; a failed creation leaves the create dialog
\* open with its draft, a failed user update leaves the edit dialog open with
\* the edited user selected; a successful creation closes the dialog and
\* resets the draft to its defaults, a successful user update closes the
\* dialog and clears the edited user.
C28_FailureKeepsFormSuccessClosesIt ==
    [][\A i \in 1..Len(net) :
         /\ (i \in FailedNow /\ net[i].kind \in MutationKinds) => AfterFailure(i)
         /\ AfterSuccess(i)]_vars

\* the Add User dialog is open on a draft right after a failed creation
C28_Witness ==
    /\ route = "users"
    /\ userMgmt.showCreateDialog
    /\ userMgmt.newUser.full_name # <<>>
    /\ userMgmt.newUser.password # <<>>
    /\ Len(userMgmt.users) = Len(server.users)
    /\ InFlight("POST_register") = {}
    /\ shown.toasts = <<Toast("error", "Failed to create user")>>

-----------------------------------------------------------------------------
(* Claims about the edit dialog of the user management view *)

\* the edit dialog is closed and no user is being edited
EditDialogCleared(um) == ~um.showEditDialog /\ um.editingUser = NoRecord

\* C29: in every state of the user management view the edit dialog is shown
\* only with an edited user selected, and the edited user is never the
\* current user; Cancel and a successful update both leave the dialog
\* closed with no edited user selected.
C29_EditDialogHasItsUser ==
    /\ [](userMgmt.showEditDialog => userMgmt.editingUser # NoRecord)
    /\ [](userMgmt.editingUser # NoRecord
            => user # NoRecord /\ userMgmt.editingUser.id # user.id)
    /\ [][CancelEditUser => EditDialogCleared(userMgmt')]_vars
    /\ [][\A i \in 1..Len(net) :
            Succeeds(i, "PUT_user", "User updated successfully!")
                => EditDialogCleared(userMgmt')]_vars

\* the dialog is open on another user's card while an update that was
\* submitted from it is in flight
C29_Witness ==
    /\ UserMgmtRendered
    /\ userMgmt.showEditDialog
    /\ userMgmt.editingUser # NoRecord
    /\ userMgmt.editingUser.id # user.id
    /\ \E i \in InFlight("PUT_user") : net[i].id = userMgmt.editingUser.id

-----------------------------------------------------------------------------
(* Claims about the sign-in button *)

\* <Button type="submit" disabled={loading}>
SignInDisabled == loginView.loading

\* the step ends the login attempt of a form that stays on screen
AttemptEnds ==
    /\ loginView.awaiting # NoRecord
    /\ loginView'.awaiting = NoRecord
    /\ route = "login" /\ route' = "login"

\* C30: the sign-in button is disabled exactly while a login attempt is in
\* flight, so that at most one login request is outstanding, and after every
\* attempt has ended, with success, with a failure result or with login
\* rejecting, the button is enabled again.
C30_ButtonDisabledWhileInFlight ==
    /\ [](LoginFormRendered => (SignInDisabled <=> loginView.awaiting # NoRecord))
    /\ [][(loginView'.awaiting # NoRecord /\ loginView'.awaiting # loginView.awaiting
             /\ loginView'.awaiting.result = NoRecord)
           => ~SignInDisabled /\ loginView.awaiting = NoRecord]_vars
    /\ [][AttemptEnds => ~SignInDisabled']_vars

=============================================================================
